---------------------------- MODULE Spec2Model ----------------------------
(***************************************************************************)
(* Model of the odds ingestion and entity-resolution engine of             *)
(* toto_f1_api.py: the key normalizer, the text-block extractor, the       *)
(* section associator, the snapshot/entity store and the refresh cycle.    *)
(*                                                                         *)
(* A Python str is a sequence of one-character strings; None is the empty  *)
(* option <<>> and a present value v is <<v>>; a database table is the     *)
(* sequence of its rows in id order (AUTOINCREMENT, no row is ever         *)
(* deleted, so the id of a row is its index).                              *)
(***************************************************************************)
EXTENDS Integers, Sequences, FiniteSets, TLC

VARIABLES
    pc,      \* position of the run under way
    name,    \* SpecKey: the argument of canonical_key
    key,     \* SpecKey: canonical_key(name)
    key2,    \* SpecKey: canonical_key(key)
    lines,   \* SpecBlocks: the argument of _extract_market_blocks
    scan,    \* SpecBlocks: the locals of its loop (i, title, items, blocks)
    blocks,  \* SpecBlocks: its return value
    db,      \* Spec: the tables of the store
    ret,     \* Spec: the last call on the store and what it returned
    cog      \* the bot's cogs: the fields of the cog object under study

vars == <<pc, name, key, key2, lines, scan, blocks, db, ret, cog>>

keyVars == <<name, key, key2>>
blockVars == <<lines, scan, blocks>>
storeVars == <<db, ret>>
botVars == <<cog>>

----------------------------------------------------------------------------
(* Bounds of the model.                                                    *)

MaxKeyLen == 5
MaxShortLines == 4
MaxPairLines == 6
MaxLines == 6
MaxSnapshots == 2
MaxOutcomes == 2
MaxSeq == 3
MaxOddsLen == 5
MaxCalls == 4
MaxUpserts == 2
MaxClock == 90

----------------------------------------------------------------------------
(* Characters and strings.                                                 *)

NBSP == " "

\* str.strip() and the regex class \s, on the characters of the model
Whitespace == {" ", "\t", "\n", NBSP}

Digits == {"0", "1", "2", "3", "4", "5", "6", "7", "8", "9"}

LowerLetters ==
    {"a", "b", "c", "d", "e", "f", "g", "h", "i", "j", "k", "l", "m",
     "n", "o", "p", "q", "r", "s", "t", "u", "v", "w", "x", "y", "z"}

UpperChars == <<"A", "B", "C", "D", "E", "F", "G", "H", "I", "J", "K", "L", "M",
                "N", "O", "P", "Q", "R", "S", "T", "U", "V", "W", "X", "Y", "Z",
                "É", "Á", "Ü", "Ñ", "Ç">>

LowerChars == <<"a", "b", "c", "d", "e", "f", "g", "h", "i", "j", "k", "l", "m",
                "n", "o", "p", "q", "r", "s", "t", "u", "v", "w", "x", "y", "z",
                "é", "á", "ü", "ñ", "ç">>

\* the lower-case form of each cased character
LowerOf ==
    [c \in {UpperChars[i] : i \in 1..Len(UpperChars)} |->
        LowerChars[CHOOSE i \in 1..Len(UpperChars) : UpperChars[i] = c]]

\* str.lower(), one character
LowerChar(c) == IF c \in DOMAIN LowerOf THEN LowerOf[c] ELSE c

lower(s) == [i \in 1..Len(s) |-> LowerChar(s[i])]

RECURSIVE lstrip(_)
lstrip(s) ==
    IF s # <<>> /\ Head(s) \in Whitespace THEN lstrip(Tail(s)) ELSE s

RECURSIVE rstrip(_)
rstrip(s) ==
    IF s # <<>> /\ s[Len(s)] \in Whitespace
    THEN rstrip(SubSeq(s, 1, Len(s) - 1))
    ELSE s

strip(s) == rstrip(lstrip(s))

RECURSIVE DropWhile(_, _)
DropWhile(s, cls) ==
    IF s # <<>> /\ Head(s) \in cls THEN DropWhile(Tail(s), cls) ELSE s

\* re.sub(r"[cls]+", " ", s): every maximal run of cls becomes one space
RECURSIVE SubRunsBySpace(_, _)
SubRunsBySpace(s, cls) ==
    IF s = <<>> THEN <<>>
    ELSE IF Head(s) \in cls
         THEN <<" ">> \o SubRunsBySpace(DropWhile(Tail(s), cls), cls)
         ELSE <<Head(s)>> \o SubRunsBySpace(Tail(s), cls)

\* the class of WS_RE, [ \t\xa0]
WS_RE == {" ", "\t", NBSP}

wsnorm(s) == SubRunsBySpace(strip(s), WS_RE)

\* s[a:] == prefix test, and the `in` operator of two strings
StartsWith(s, w) == Len(w) <= Len(s) /\ SubSeq(s, 1, Len(w)) = w

Contains(s, w) ==
    \/ w = <<>>
    \/ \E i \in 1..(Len(s) - Len(w) + 1) :
          s[i] = w[1] /\ SubSeq(s, i, i + Len(w) - 1) = w

----------------------------------------------------------------------------
(* canonical_key                                                           *)

\* the class [a-z0-9 ] of the first re.sub
KeyChars == LowerLetters \cup Digits \cup {" "}

\* the table of the replace loop: (accented letters, base letter)
TranslitTable ==
    << <<{"á", "à", "ä", "â"}, "a">>, <<{"é", "è", "ë", "ê"}, "e">>,
       <<{"í", "ì", "ï", "î"}, "i">>, <<{"ó", "ò", "ö", "ô"}, "o">>,
       <<{"ú", "ù", "ü", "û"}, "u">>, <<{"ñ"}, "n">>, <<{"ç"}, "c">> >>

TranslitChar(c) ==
    IF \E i \in 1..Len(TranslitTable) : c \in TranslitTable[i][1]
    THEN TranslitTable[CHOOSE i \in 1..Len(TranslitTable) : c \in TranslitTable[i][1]][2]
    ELSE c

\* for src, tgt in [...]: for ch in src: k = k.replace(ch, tgt)
Translit(k) == [i \in 1..Len(k) |-> TranslitChar(k[i])]

\* re.sub(r"[^a-z0-9 ]+", "", k)
StripNonKeyChars(k) == SelectSeq(k, LAMBDA c : c \in KeyChars)

\* re.sub(r"\s+", " ", k).strip()
CollapseSpaces(k) == strip(SubRunsBySpace(k, Whitespace))

\* mutant: the second whitespace pass is left out
canonical_key_NoCollapse(n) ==
    Translit(StripNonKeyChars(lower(wsnorm(n))))

canonical_key(n) ==
    Translit(CollapseSpaces(StripNonKeyChars(lower(wsnorm(n)))))

----------------------------------------------------------------------------
(* Odds tokens                                                             *)

AllDigits(s) == \A i \in 1..Len(s) : s[i] \in Digits

\* (?:\.\d{3})*,\d{2} to the end of the string
RECURSIVE OddsTail(_)
OddsTail(r) ==
    \/ Len(r) = 3 /\ r[1] = "," /\ AllDigits(SubSeq(r, 2, 3))
    \/ Len(r) >= 4 /\ r[1] = "." /\ AllDigits(SubSeq(r, 2, 4))
                   /\ OddsTail(SubSeq(r, 5, Len(r)))

\* mutant: the decimal separator is a point
ODDS_DUTCH_RE_match_Dot(s) ==
    \E k \in 1..3 :
        /\ Len(s) = k + 3
        /\ AllDigits(SubSeq(s, 1, k))
        /\ s[k + 1] = "."
        /\ AllDigits(SubSeq(s, k + 2, k + 3))

\* ODDS_DUTCH_RE.match(s): ^\d{1,3}(?:\.\d{3})*,\d{2}$ ; the $ of re also
\* matches before one newline that ends the string
ODDS_DUTCH_RE_match(s) ==
    LET t == IF s # <<>> /\ s[Len(s)] = "\n" THEN SubSeq(s, 1, Len(s) - 1) ELSE s
    IN  \E k \in 1..3 :
            /\ k < Len(t)
            /\ AllDigits(SubSeq(t, 1, k))
            /\ OddsTail(SubSeq(t, k + 1, Len(t)))

DigitValue(c) ==
    CASE c = "0" -> 0 [] c = "1" -> 1 [] c = "2" -> 2 [] c = "3" -> 3
      [] c = "4" -> 4 [] c = "5" -> 5 [] c = "6" -> 6 [] c = "7" -> 7
      [] c = "8" -> 8 [] c = "9" -> 9

RECURSIVE DecimalValue(_)
DecimalValue(ds) ==
    IF ds = <<>> THEN 0
    ELSE 10 * DecimalValue(SubSeq(ds, 1, Len(ds) - 1)) + DigitValue(ds[Len(ds)])

\* a float that a decimal literal denotes, exactly: m / 10^k, with no
\* trailing zero counted in k, so that equal numbers are equal records
RECURSIVE Decimal(_, _)
Decimal(m, k) ==
    IF k > 0 /\ m % 10 = 0 THEN Decimal(m \div 10, k - 1) ELSE [m |-> m, k |-> k]

\* s.replace(c, w) for a one-character c
RECURSIVE Replace(_, _, _)
Replace(s, c, w) ==
    IF s = <<>> THEN <<>>
    ELSE (IF Head(s) = c THEN w ELSE <<Head(s)>>) \o Replace(Tail(s), c, w)

\* float(t) as an option, None for ValueError, on strings of digits, ".",
\* signs, white space and characters that no float literal holds (no
\* exponent, "inf", "nan" or "_"): white space is stripped, then an optional
\* sign, then digits with at most one point and at least one digit
float(t) ==
    LET u == strip(t)
        signed == u # <<>> /\ u[1] \in {"+", "-"}
        body == IF signed THEN Tail(u) ELSE u
        points == {i \in 1..Len(body) : body[i] = "."}
        p == IF points = {} THEN Len(body) + 1 ELSE CHOOSE i \in points : TRUE
        int == SubSeq(body, 1, p - 1)
        frac == SubSeq(body, p + 1, Len(body))
        digits == DecimalValue(int \o frac)
    IN  IF /\ Cardinality(points) <= 1
           /\ AllDigits(int) /\ AllDigits(frac)
           /\ int \o frac # <<>>
        THEN <<Decimal(IF signed /\ u[1] = "-" THEN 0 - digits ELSE digits, Len(frac))>>
        ELSE <<>>

\* mutant: the comma is made the point before the points are deleted
parse_dutch_decimal_CommaFirst(s) == float(Replace(Replace(s, ",", <<".">>), ".", <<>>))

\* the float as an option, None when float() raises ValueError
parse_dutch_decimal(s) == float(Replace(Replace(s, ".", <<>>), ",", <<".">>))

\* mutant: the probability of odds 0 is 1
implied_probability_NoZero(d) == <<10 ^ d.k, IF d.m = 0 THEN 1 ELSE d.m>>

\* 0 if not d else 1.0/d, as the fraction <<numerator, denominator>>; the
\* division is exact here, the float of the code is the nearest double
implied_probability(d) == IF d.m = 0 THEN <<0, 1>> ELSE <<10 ^ d.k, d.m>>

----------------------------------------------------------------------------
(* looks_like_market_title                                                 *)

MaxTitleLen == 120

MinTabs == 3

\* the class [\d\.\, ] of the numeric-range pattern
RangeChars == Digits \cup {".", ",", " "}

\* re.fullmatch(r"[\d\.\, ]+\s*-\s*[\d\.\, ]+.*", k)
IsNumericRange(k) ==
    \E p \in 2..Len(k) :
        /\ k[p] = "-"
        /\ \E a \in 1..(p - 1) :
              /\ \A i \in 1..a : k[i] \in RangeChars
              /\ \A i \in (a + 1)..(p - 1) : k[i] \in Whitespace
        /\ \E b \in p..(Len(k) - 1) :
              /\ \A i \in (p + 1)..b : k[i] \in Whitespace
              /\ k[b + 1] \in RangeChars
              /\ \A i \in (b + 2)..Len(k) : k[i] # "\n"

StrongMarkers ==
    {<<"w", "i", "n", "n", "a", "a", "r">>,
     <<"w", "i", "n", "n", "i", "n", "g">>,
     <<"t", "o", "p", " ">>,
     <<"c", "o", "n", "s", "t", "r", "u", "c", "t", "o", "r">>,
     <<"k", "w", "a", "l", "i", "f", "i", "c", "a", "t", "i", "e">>,
     <<"q", "u", "a", "l", "i", "f", "i", "c", "a", "t", "i", "o", "n">>,
     <<"r", "a", "c", "e">>,
     <<"s", "p", "r", "i", "n", "t">>,
     <<"c", "h", "a", "m", "p", "i", "o", "n", "s", "h", "i", "p">>,
     <<"m", "a", "r", "g", "e">>,
     <<"m", "a", "r", "g", "i", "n">>,
     <<"n", "a", "t", "i", "o", "n", "a", "l", "i", "t", "y">>,
     <<"c", "l", "a", "s", "s", "i", "f", "i", "e", "d">>,
     <<"f", "i", "r", "s", "t", " ">>,
     <<"a", "n", "y", " ", "d", "r", "i", "v", "e", "r">>,
     <<"n", "u", "m", "b", "e", "r", " ", "o", "f">>,
     <<"a", "u", "t", "o", " ">>}

looks_like_market_title(line) ==
    LET l == wsnorm(line)
        k == lower(l)
    IN  /\ ~(Len(l) > MaxTitleLen)
        /\ ~IsNumericRange(k)
        /\ \E w \in StrongMarkers : Contains(k, w)

----------------------------------------------------------------------------
(* _extract_market_blocks                                                  *)
(* The locals of the function are the record [i, title, items, blocks]:    *)
(* i is the index of the line under the cursor, counted from 1; title is   *)
(* the open title as an option; items are the (selection, odds) pairs      *)
(* collected under it; blocks are the (title, entries) pairs flushed.      *)

BekijkMeerPrefix == <<"b", "e", "k", "i", "j", "k", " ", "m", "e", "e", "r">>

\* mutant: a repeated pair replaces its earlier occurrence
RECURSIVE Uniq_KeepLast(_, _)
Uniq_KeepLast(items, seen) ==
    IF items = <<>> THEN <<>>
    ELSE IF \E j \in 2..Len(items) : items[j] = Head(items)
         THEN Uniq_KeepLast(Tail(items), seen)
         ELSE <<Head(items)>> \o Uniq_KeepLast(Tail(items), seen)

\* the loop of flush(): the pairs of items not in seen, first occurrence kept
RECURSIVE Uniq(_, _)
Uniq(items, seen) ==
    IF items = <<>> THEN <<>>
    ELSE IF Head(items) \in seen
         THEN Uniq(Tail(items), seen)
         ELSE <<Head(items)>> \o Uniq(Tail(items), seen \cup {Head(items)})

\* seen = set(); uniq = []; for sel, odd in items: ...
dedupe(items) == Uniq(items, {})

\* mutant: a title is enough for a block
flush_KeepEmpty(st) ==
    IF st.title # <<>> /\ st.title[1] # <<>>
    THEN [st EXCEPT !.blocks = Append(st.blocks, <<st.title[1], dedupe(st.items)>>),
                    !.title = <<>>, !.items = <<>>]
    ELSE [st EXCEPT !.title = <<>>, !.items = <<>>]

flush(st) ==
    IF st.title # <<>> /\ st.title[1] # <<>> /\ st.items # <<>>
    THEN [st EXCEPT !.blocks = Append(st.blocks, <<st.title[1], dedupe(st.items)>>),
                    !.title = <<>>, !.items = <<>>]
    ELSE [st EXCEPT !.title = <<>>, !.items = <<>>]

ScanStart == [i |-> 1, title |-> <<>>, items |-> <<>>, blocks |-> <<>>]

\* mutant: a line that is no title, filler or selection closes the open block
ScanLine_NoiseCloses(ls, st) ==
    LET ln == wsnorm(ls[st.i])
    IN  IF st.title = <<>> /\ looks_like_market_title(ln)
        THEN [st EXCEPT !.title = <<ln>>, !.i = st.i + 1]
        ELSE IF st.title # <<>> /\ StartsWith(lower(ln), BekijkMeerPrefix)
        THEN [st EXCEPT !.i = st.i + 1]
        ELSE IF st.title # <<>> /\ looks_like_market_title(ln)
        THEN [flush(st) EXCEPT !.title = <<ln>>, !.i = st.i + 1]
        ELSE IF st.title # <<>> /\ st.i + 1 <= Len(ls) /\ ODDS_DUTCH_RE_match(ls[st.i + 1])
        THEN [st EXCEPT !.items = Append(st.items, <<ln, ls[st.i + 1]>>), !.i = st.i + 2]
        ELSE [flush(st) EXCEPT !.i = st.i + 1]

\* one iteration of `while i < len(lines)`
ScanLine(ls, st) ==
    LET ln == wsnorm(ls[st.i])
    IN  IF st.title = <<>> /\ looks_like_market_title(ln)
        THEN [st EXCEPT !.title = <<ln>>, !.i = st.i + 1]
        ELSE IF st.title # <<>> /\ StartsWith(lower(ln), BekijkMeerPrefix)
        THEN [st EXCEPT !.i = st.i + 1]
        ELSE IF st.title # <<>> /\ looks_like_market_title(ln)
        THEN [flush(st) EXCEPT !.title = <<ln>>, !.i = st.i + 1]
        ELSE IF st.title # <<>> /\ st.i + 1 <= Len(ls) /\ ODDS_DUTCH_RE_match(ls[st.i + 1])
        THEN [st EXCEPT !.items = Append(st.items, <<ln, ls[st.i + 1]>>), !.i = st.i + 2]
        ELSE [st EXCEPT !.i = st.i + 1]

RECURSIVE ScanFrom(_, _)
ScanFrom(ls, st) ==
    IF st.i <= Len(ls) THEN ScanFrom(ls, ScanLine(ls, st)) ELSE flush(st).blocks

_extract_market_blocks(ls) == ScanFrom(ls, ScanStart)

----------------------------------------------------------------------------
(* _extract_sections, _match_section_for_market, guess_entity_type         *)

AllesWord == <<"a", "l", "l", "e", "s">>

SpacedHyphen == <<" ", "-", " ">>

SectionKeywords ==
    {<<"g", "r", "a", "n", "d", " ", "p", "r", "i", "x">>,
     <<"f", "o", "r", "m", "u", "l", "a">>,
     <<"f", "o", "r", "m", "u", "l", "e">>,
     <<"q", "u", "a", "l", "i", "f", "i", "c", "a", "t", "i", "o", "n">>,
     <<"k", "w", "a", "l", "i", "f", "i", "c", "a", "t", "i", "e">>,
     <<"s", "p", "r", "i", "n", "t">>,
     <<"r", "a", "c", "e">>}

\* 20\d{2} somewhere in s
HasYear(s) ==
    \E i \in 1..(Len(s) - 3) :
        s[i] = "2" /\ s[i + 1] = "0" /\ s[i + 2] \in Digits /\ s[i + 3] \in Digits

\* mutant: the keyword race is missing from the pattern
IsTabLine_NoRace(low) ==
    (\E w \in SectionKeywords \ {<<"r", "a", "c", "e">>} : Contains(low, w)) \/ HasYear(low)

\* re.search(r"(grand prix|formula|formule|qualification|kwalificatie|sprint|race|20\d{2})", low)
IsTabLine(low) == (\E w \in SectionKeywords : Contains(low, w)) \/ HasYear(low)

InSeq(x, seq) == \E i \in 1..Len(seq) : seq[i] = x

\* the for loop over lines[n..], with the locals tabs and capture
RECURSIVE SectionsFrom(_, _, _, _)
SectionsFrom(ls, n, tabs, capture) ==
    IF n > Len(ls) THEN tabs
    ELSE LET sl == strip(ls[n])
             low == lower(sl)
         IN  IF low = AllesWord THEN SectionsFrom(ls, n + 1, tabs, TRUE)
             ELSE IF ~capture THEN SectionsFrom(ls, n + 1, tabs, capture)
             ELSE IF Contains(sl, SpacedHyphen)
                  THEN IF Len(tabs) >= MinTabs THEN tabs
                       ELSE SectionsFrom(ls, n + 1, tabs, capture)
             ELSE IF IsTabLine(low)
                  THEN SectionsFrom(ls, n + 1,
                                    IF InSeq(sl, tabs) THEN tabs ELSE Append(tabs, sl),
                                    capture)
             ELSE IF Len(tabs) >= MinTabs THEN tabs
             ELSE SectionsFrom(ls, n + 1, tabs, capture)

_extract_sections(ls) == SectionsFrom(ls, 1, <<>>, FALSE)

MarketRaceKeywords ==
    {<<"r", "a", "c", "e">>,
     <<"k", "w", "a", "l", "i", "f", "i", "c", "a", "t", "i", "e">>,
     <<"q", "u", "a", "l", "i", "f", "y", "i", "n", "g">>,
     <<"s", "p", "r", "i", "n", "t">>,
     <<"s", "h", "o", "o", "t", "o", "u", "t">>}

SectionRaceKeywords ==
    {<<"r", "a", "c", "e">>,
     <<"q", "u", "a", "l", "i", "f", "i", "c", "a", "t", "i", "o", "n">>,
     <<"k", "w", "a", "l", "i", "f", "i", "c", "a", "t", "i", "e">>,
     <<"s", "p", "r", "i", "n", "t">>}

\* re.search(r"(formula|formule)\s*1\s*20\d{2}", s)
IsSeasonTitle(s) ==
    \E i \in 1..Len(s) : \E a \in (i + 7)..Len(s) : \E b \in (a + 1)..Len(s) :
        /\ SubSeq(s, i, i + 6) \in {<<"f", "o", "r", "m", "u", "l", "a">>,
                                     <<"f", "o", "r", "m", "u", "l", "e">>}
        /\ \A j \in (i + 7)..(a - 1) : s[j] \in Whitespace
        /\ s[a] = "1"
        /\ \A j \in (a + 1)..(b - 1) : s[j] \in Whitespace
        /\ b + 3 <= Len(s)
        /\ s[b] = "2" /\ s[b + 1] = "0" /\ s[b + 2] \in Digits /\ s[b + 3] \in Digits

\* mutant: the season fallback is tried first
_match_section_for_market_SeasonFirst(market_title, sections) ==
    LET mt == lower(market_title)
        Race(n) == /\ \E k \in MarketRaceKeywords : Contains(mt, k)
                   /\ \E k \in SectionRaceKeywords : Contains(lower(sections[n]), k)
        Season(n) == IsSeasonTitle(lower(sections[n]))
        First(P(_)) == CHOOSE n \in 1..Len(sections) : P(n) /\ \A m \in 1..(n - 1) : ~P(m)
    IN  IF \E n \in 1..Len(sections) : Season(n) THEN <<sections[First(Season)]>>
        ELSE IF \E n \in 1..Len(sections) : Race(n) THEN <<sections[First(Race)]>>
        ELSE <<>>

\* the section matched to a market title, as an option
_match_section_for_market(market_title, sections) ==
    LET mt == lower(market_title)
        Race(n) == /\ \E k \in MarketRaceKeywords : Contains(mt, k)
                   /\ \E k \in SectionRaceKeywords : Contains(lower(sections[n]), k)
        Season(n) == IsSeasonTitle(lower(sections[n]))
        First(P(_)) == CHOOSE n \in 1..Len(sections) : P(n) /\ \A m \in 1..(n - 1) : ~P(m)
    IN  IF \E n \in 1..Len(sections) : Race(n) THEN <<sections[First(Race)]>>
        ELSE IF \E n \in 1..Len(sections) : Season(n) THEN <<sections[First(Season)]>>
        ELSE <<>>

TeamKeywords ==
    {<<"r", "a", "c", "i", "n", "g">>,
     <<"a", "m", "g">>,
     <<"t", "e", "a", "m">>,
     <<"w", "i", "l", "l", "i", "a", "m", "s">>,
     <<"m", "c", "l", "a", "r", "e", "n">>,
     <<"r", "e", "d", " ", "b", "u", "l", "l">>,
     <<"f", "e", "r", "r", "a", "r", "i">>,
     <<"m", "e", "r", "c", "e", "d", "e", "s">>,
     <<"a", "s", "t", "o", "n", " ", "m", "a", "r", "t", "i", "n">>,
     <<"s", "a", "u", "b", "e", "r">>,
     <<"a", "l", "p", "i", "n", "e">>,
     <<"r", "b">>}

\* the type tag as an option: <<"driver">>, <<"team">> or None
guess_entity_type(n) ==
    LET l == lower(n)
    IN  IF Contains(n, <<",">>) THEN <<"driver">>
        ELSE IF \E k \in TeamKeywords : Contains(l, k) THEN <<"team">>
        ELSE <<>>

----------------------------------------------------------------------------
(* class DB: the tables (SCHEMA) and the operations on them.               *)
(* db is the record of the tables. A table is the sequence of its rows in  *)
(* id order, each row with its id; outcome_entities, keyed by outcome_id,  *)
(* is the set of its rows. No operation deletes a row. db.seq holds, for   *)
(* the tables written by INSERT OR IGNORE, the AUTOINCREMENT counter       *)
(* (sqlite_sequence): SQLite advances it also for an insert that the       *)
(* UNIQUE constraint makes it ignore, so the ids of such a table have      *)
(* gaps. An operation that returns an id is the record [db, id] of the     *)
(* store it leaves and the id it returns. odds_decimal is a Decimal.       *)

\* a NULL id column, and None passed for an id
NULL == 0

EmptyDB ==
    [snapshots |-> <<>>, sections |-> <<>>, events |-> <<>>, markets |-> <<>>,
     outcomes |-> <<>>, entities |-> <<>>, entity_aliases |-> <<>>,
     outcome_entities |-> {},
     seq |-> [sections |-> 0, events |-> 0, markets |-> 0]]

Rows(table) == {table[i] : i \in 1..Len(table)}

\* SELECT id FROM ...: the ids of the rows selected
RowIds(rows) == {r.id : r \in rows}

RowById(table, id) == CHOOSE r \in Rows(table) : r.id = id

Min(S) == CHOOSE x \in S : \A y \in S : x <= y

Max(S) == CHOOSE x \in S : \A y \in S : y <= x

\* the id a plain INSERT gives: one more than the largest of the table
NextId(table) == IF table = <<>> THEN 1 ELSE table[Len(table)].id + 1

\* mutant: a page whose content is on record gets the snapshot it has
new_snapshot_SameContent(d, url, html) ==
    LET same == {r \in Rows(d.snapshots) : r.html = html}
        id == NextId(d.snapshots)
    IN  IF same # {}
        THEN [db |-> d, id |-> Min(RowIds(same))]
        ELSE [db |-> [d EXCEPT !.snapshots = Append(@, [id |-> id, url |-> url, html |-> html])],
              id |-> id]

new_snapshot(d, url, html) ==
    LET id == NextId(d.snapshots)
    IN  [db |-> [d EXCEPT !.snapshots = Append(@, [id |-> id, url |-> url, html |-> html])],
         id |-> id]

\* mutant: a plain INSERT into a table without the UNIQUE constraint
upsert_section_NoUnique(d, title) ==
    LET HasTitle(r) == r.title = title
        id == d.seq.sections + 1
        rows == Append(d.sections, [id |-> id, title |-> title])
    IN  [db |-> [d EXCEPT !.sections = rows, !.seq.sections = id],
         id |-> Min(RowIds({x \in Rows(rows) : HasTitle(x)}))]

upsert_section(d, title) ==
    LET HasTitle(r) == r.title = title
        id == d.seq.sections + 1
        rows == IF RowIds({x \in Rows(d.sections) : HasTitle(x)}) = {}
                THEN Append(d.sections, [id |-> id, title |-> title])
                ELSE d.sections
    IN  [db |-> [d EXCEPT !.sections = rows, !.seq.sections = id],
         id |-> Min(RowIds({x \in Rows(rows) : HasTitle(x)}))]

\* mutant: the UPDATE is made without the test of section_id
upsert_event_Overwrite(d, ename, section_id) ==
    LET HasName(r) == r.name = ename
        new == d.seq.events + 1
        rows == IF RowIds({x \in Rows(d.events) : HasName(x)}) = {}
                THEN Append(d.events, [id |-> new, name |-> ename, section_id |-> section_id])
                ELSE d.events
        id == Min(RowIds({x \in Rows(rows) : HasName(x)}))
        upd == [i \in 1..Len(rows) |->
                   IF rows[i].id = id THEN [rows[i] EXCEPT !.section_id = section_id]
                   ELSE rows[i]]
    IN  [db |-> [d EXCEPT !.events = upd, !.seq.events = new], id |-> id]

upsert_event(d, ename, section_id) ==
    LET HasName(r) == r.name = ename
        new == d.seq.events + 1
        rows == IF RowIds({x \in Rows(d.events) : HasName(x)}) = {}
                THEN Append(d.events, [id |-> new, name |-> ename, section_id |-> section_id])
                ELSE d.events
        id == Min(RowIds({x \in Rows(rows) : HasName(x)}))
        upd == IF section_id # NULL /\ RowById(rows, id).section_id # section_id
               THEN [i \in 1..Len(rows) |->
                        IF rows[i].id = id THEN [rows[i] EXCEPT !.section_id = section_id]
                        ELSE rows[i]]
               ELSE rows
    IN  [db |-> [d EXCEPT !.events = upd, !.seq.events = new], id |-> id]

\* mutant: last_seen_snapshot_id is written by the INSERT only
upsert_market_NoTouch(d, mname, event_id, snapshot_id) ==
    LET HasName(r) == r.name = mname
        new == d.seq.markets + 1
        rows == IF RowIds({x \in Rows(d.markets) : HasName(x)}) = {}
                THEN Append(d.markets, [id |-> new, name |-> mname, event_id |-> event_id,
                                        last_seen_snapshot_id |-> snapshot_id])
                ELSE d.markets
        id == Min(RowIds({x \in Rows(rows) : HasName(x)}))
        upd == IF event_id # NULL /\ RowById(rows, id).event_id # event_id
               THEN [i \in 1..Len(rows) |->
                        IF rows[i].id = id THEN [rows[i] EXCEPT !.event_id = event_id]
                        ELSE rows[i]]
               ELSE rows
    IN  [db |-> [d EXCEPT !.markets = upd, !.seq.markets = new], id |-> id]

upsert_market(d, mname, event_id, snapshot_id) ==
    LET HasName(r) == r.name = mname
        new == d.seq.markets + 1
        rows == IF RowIds({x \in Rows(d.markets) : HasName(x)}) = {}
                THEN Append(d.markets, [id |-> new, name |-> mname, event_id |-> event_id,
                                        last_seen_snapshot_id |-> snapshot_id])
                ELSE d.markets
        id == Min(RowIds({x \in Rows(rows) : HasName(x)}))
        seen == [i \in 1..Len(rows) |->
                    IF rows[i].id = id
                    THEN [rows[i] EXCEPT !.last_seen_snapshot_id = snapshot_id]
                    ELSE rows[i]]
        upd == IF event_id # NULL /\ RowById(rows, id).event_id # event_id
               THEN [i \in 1..Len(seen) |->
                        IF seen[i].id = id THEN [seen[i] EXCEPT !.event_id = event_id]
                        ELSE seen[i]]
               ELSE seen
    IN  [db |-> [d EXCEPT !.markets = upd, !.seq.markets = new], id |-> id]

\* mutant: the row of the same market and selection is written over
insert_outcome_Replace(d, market_id, selection_name, odds_decimal, snapshot_id) ==
    LET Same(r) == r.market_id = market_id /\ r.selection_name = selection_name
        id == NextId(d.outcomes)
        row == [id |-> id, market_id |-> market_id,
                selection_name |-> selection_name,
                odds_decimal |-> odds_decimal,
                implied_prob |-> implied_probability(odds_decimal),
                snapshot_id |-> snapshot_id]
    IN  [db |-> [d EXCEPT !.outcomes = Append(SelectSeq(@, LAMBDA r : ~Same(r)), row)],
         id |-> id]

insert_outcome(d, market_id, selection_name, odds_decimal, snapshot_id) ==
    LET id == NextId(d.outcomes)
    IN  [db |-> [d EXCEPT !.outcomes =
                    Append(@, [id |-> id, market_id |-> market_id,
                               selection_name |-> selection_name,
                               odds_decimal |-> odds_decimal,
                               implied_prob |-> implied_probability(odds_decimal),
                               snapshot_id |-> snapshot_id])],
         id |-> id]

\* mutant: a plain INSERT, whether the alias row is there or not
_upsert_alias_AlwaysInsert(d, entity_id, alias, snapshot_id) ==
    [d EXCEPT !.entity_aliases =
        Append(@, [id |-> NextId(d.entity_aliases), entity_id |-> entity_id,
                   alias |-> alias, alias_key |-> canonical_key(alias),
                   first_seen_snapshot_id |-> snapshot_id,
                   last_seen_snapshot_id |-> snapshot_id])]

\* returns the store only
_upsert_alias(d, entity_id, alias, snapshot_id) ==
    LET ak == canonical_key(alias)
        IsRow(r) == r.entity_id = entity_id /\ r.alias_key = ak
        found == RowIds({x \in Rows(d.entity_aliases) : IsRow(x)})
        rows == d.entity_aliases
    IN  IF found # {}
        THEN [d EXCEPT !.entity_aliases =
                 [i \in 1..Len(rows) |->
                     IF rows[i].id = Min(found)
                     THEN [rows[i] EXCEPT !.last_seen_snapshot_id = snapshot_id]
                     ELSE rows[i]]]
        ELSE [d EXCEPT !.entity_aliases =
                 Append(@, [id |-> NextId(rows), entity_id |-> entity_id,
                            alias |-> alias, alias_key |-> ak,
                            first_seen_snapshot_id |-> snapshot_id,
                            last_seen_snapshot_id |-> snapshot_id])]

\* mutant: the entity is looked up by its display name, not by its key
upsert_entity_with_alias_ByName(d, ename, snapshot_id, typ) ==
    LET k == canonical_key(ename)
        HasName(r) == r.canonical_name = ename
        found == RowIds({x \in Rows(d.entities) : HasName(x)})
        id == NextId(d.entities)
    IN  IF found # {}
        THEN [db |-> _upsert_alias(d, Min(found), ename, snapshot_id), id |-> Min(found)]
        ELSE [db |-> _upsert_alias(
                        [d EXCEPT !.entities =
                            Append(@, [id |-> id, type |-> typ, canonical_name |-> ename,
                                       canonical_key |-> k])],
                        id, ename, snapshot_id),
              id |-> id]

upsert_entity_with_alias(d, ename, snapshot_id, typ) ==
    LET k == canonical_key(ename)
        HasKey(r) == r.canonical_key = k
        found == RowIds({x \in Rows(d.entities) : HasKey(x)})
        id == NextId(d.entities)
    IN  IF found # {}
        THEN [db |-> _upsert_alias(d, Min(found), ename, snapshot_id), id |-> Min(found)]
        ELSE [db |-> _upsert_alias(
                        [d EXCEPT !.entities =
                            Append(@, [id |-> id, type |-> typ, canonical_name |-> ename,
                                       canonical_key |-> k])],
                        id, ename, snapshot_id),
              id |-> id]

\* mutant: INSERT OR REPLACE, the later link wins
link_outcome_entity_Replace(d, outcome_id, entity_id) ==
    [d EXCEPT !.outcome_entities =
        {l \in @ : l.outcome_id # outcome_id}
            \cup {[outcome_id |-> outcome_id, entity_id |-> entity_id]}]

\* INSERT OR IGNORE on the primary key outcome_id; returns the store only
link_outcome_entity(d, outcome_id, entity_id) ==
    IF \E l \in d.outcome_entities : l.outcome_id = outcome_id
    THEN d
    ELSE [d EXCEPT !.outcome_entities =
             @ \cup {[outcome_id |-> outcome_id, entity_id |-> entity_id]}]

\* the LEFT JOIN column oe.entity_id of an outcome
LinkedEntity(d, outcome_id) ==
    IF \E l \in d.outcome_entities : l.outcome_id = outcome_id
    THEN (CHOOSE l \in d.outcome_entities : l.outcome_id = outcome_id).entity_id
    ELSE NULL

\* the ids of a set in ascending order (ORDER BY o.id)
RECURSIVE Ascending(_)
Ascending(S) == IF S = {} THEN <<>> ELSE <<Min(S)>> \o Ascending(S \ {Min(S)})

\* Outcome(**dict(r)) of the row with this id
OutcomeRecord(d, id) ==
    LET r == RowById(d.outcomes, id)
    IN  [id |-> id, market_id |-> r.market_id, selection_name |-> r.selection_name,
         odds_decimal |-> r.odds_decimal, implied_prob |-> r.implied_prob,
         entity_id |-> LinkedEntity(d, id)]

\* mutant: the newest snapshot of the whole table, not of the market
list_outcomes_latest_Global(d, market_id) ==
    LET OfMarket(r) == r.market_id = market_id
        snap == IF d.outcomes = <<>> THEN NULL
                ELSE Max({r.snapshot_id : r \in Rows(d.outcomes)})
        AtSnap(r) == OfMarket(r) /\ snap # NULL /\ r.snapshot_id = snap
        order == Ascending(RowIds({x \in Rows(d.outcomes) : AtSnap(x)}))
    IN  [n \in 1..Len(order) |-> OutcomeRecord(d, order[n])]

list_outcomes_latest(d, market_id) ==
    LET OfMarket(r) == r.market_id = market_id
        mine == {r \in Rows(d.outcomes) : OfMarket(r)}
        \* SELECT MAX(snapshot_id): NULL when the market has no outcome
        snap == IF mine = {} THEN NULL ELSE Max({r.snapshot_id : r \in mine})
        AtSnap(r) == OfMarket(r) /\ snap # NULL /\ r.snapshot_id = snap
        order == Ascending(RowIds({x \in Rows(d.outcomes) : AtSnap(x)}))
    IN  [n \in 1..Len(order) |-> OutcomeRecord(d, order[n])]

list_outcomes(d, market_id) ==
    LET OfMarket(r) == r.market_id = market_id
        order == Ascending(RowIds({x \in Rows(d.outcomes) : OfMarket(x)}))
    IN  [n \in 1..Len(order) |-> OutcomeRecord(d, order[n])]

\* no ORDER BY: the rows, in no order
entity_aliases(d, entity_id) ==
    {<<r.alias, r.first_seen_snapshot_id, r.last_seen_snapshot_id>> :
        r \in {x \in Rows(d.entity_aliases) : x.entity_id = entity_id}}

\* mutant: the text is compared with the display name
find_entity_ByName(d, name_or_alias) ==
    LET found == {e \in Rows(d.entities) : e.canonical_name = name_or_alias}
    IN  IF found = {} THEN {<<>>} ELSE {<<e>> : e \in found}

\* the values the call may return: the SELECT has LIMIT 1 and no ORDER BY,
\* so any row of the join that passes the WHERE may be the one fetched
find_entity(d, name_or_alias) ==
    LET k == canonical_key(name_or_alias)
        found == {e \in Rows(d.entities) :
                     \/ e.canonical_key = k
                     \/ \E a \in Rows(d.entity_aliases) :
                            a.entity_id = e.id /\ a.alias_key = k}
    IN  IF found = {} THEN {<<>>} ELSE {<<e>> : e \in found}

\* dict(r) of a row of outcomes JOIN outcome_entities JOIN markets
HistoryRecord(d, id) ==
    LET r == RowById(d.outcomes, id)
    IN  [outcome_id |-> id, market_id |-> r.market_id, selection_name |-> r.selection_name,
         odds_decimal |-> r.odds_decimal, implied_prob |-> r.implied_prob,
         snapshot_id |-> r.snapshot_id, market_name |-> RowById(d.markets, r.market_id).name]

\* the rows of outcomes with these ids, ORDER BY o.snapshot_id, o.id
RECURSIVE BySnapshotThenId(_, _)
BySnapshotThenId(d, ids) ==
    IF ids = {} THEN <<>>
    ELSE LET snap == Min({RowById(d.outcomes, i).snapshot_id : i \in ids})
             first == Min({i \in ids : RowById(d.outcomes, i).snapshot_id = snap})
         IN  <<first>> \o BySnapshotThenId(d, ids \ {first})

\* mutant: ORDER BY o.id
entity_odds_history_ById(d, entity_id) ==
    LET Joined(o) == /\ \E l \in d.outcome_entities :
                           l.outcome_id = o.id /\ l.entity_id = entity_id
                     /\ \E m \in Rows(d.markets) : m.id = o.market_id
        order == Ascending(RowIds({x \in Rows(d.outcomes) : Joined(x)}))
    IN  [n \in 1..Len(order) |-> HistoryRecord(d, order[n])]

entity_odds_history(d, entity_id) ==
    LET Joined(o) == /\ \E l \in d.outcome_entities :
                           l.outcome_id = o.id /\ l.entity_id = entity_id
                     /\ \E m \in Rows(d.markets) : m.id = o.market_id
        order == BySnapshotThenId(d, RowIds({x \in Rows(d.outcomes) : Joined(x)}))
    IN  [n \in 1..Len(order) |-> HistoryRecord(d, order[n])]

----------------------------------------------------------------------------
(* TotoF1Client.refresh, from the extracted lines of the fetched page on.  *)

\* sec_ids = {s: self.db.upsert_section(s) for s in sections}
RECURSIVE UpsertSections(_, _)
UpsertSections(d, sections) ==
    IF sections = <<>> THEN d
    ELSE UpsertSections(upsert_section(d, Head(sections)).db, Tail(sections))

\* sec_ids.get(title): None for a title that is no key
SectionId(d, title) ==
    LET HasTitle(r) == r.title = title
        found == RowIds({x \in Rows(d.sections) : HasTitle(x)})
    IN  IF found = {} THEN NULL ELSE Min(found)

\* for sel, odd in items: ...
RECURSIVE IngestItems(_, _, _, _)
IngestItems(d, m_id, items, snap_id) ==
    IF items = <<>> THEN d
    ELSE LET sel == Head(items)[1]
             odd == Head(items)[2]
         IN  IF ~ODDS_DUTCH_RE_match(odd)
             THEN IngestItems(d, m_id, Tail(items), snap_id)
             ELSE LET o == insert_outcome(d, m_id, sel, parse_dutch_decimal(odd)[1], snap_id)
                      e == upsert_entity_with_alias(o.db, sel, snap_id, guess_entity_type(sel))
                  IN  IngestItems(link_outcome_entity(e.db, o.id, e.id),
                                  m_id, Tail(items), snap_id)

\* for market_title, items in self._extract_market_blocks(lines): ...
RECURSIVE IngestBlocks(_, _, _, _)
IngestBlocks(d, bs, sections, snap_id) ==
    IF bs = <<>> THEN d
    ELSE LET market_title == Head(bs)[1]
             maybe_section == _match_section_for_market(market_title, sections)
             ev == IF maybe_section # <<>>
                   THEN upsert_event(d, maybe_section[1], SectionId(d, maybe_section[1]))
                   ELSE [db |-> d, id |-> NULL]
             m == upsert_market(ev.db, market_title, ev.id, snap_id)
         IN  IngestBlocks(IngestItems(m.db, m.id, Head(bs)[2], snap_id),
                          Tail(bs), sections, snap_id)

\* The store after each statement of a method that makes more than one:
\* every statement is followed by a commit, so these are the stores a
\* process that dies inside the method can leave.
upsert_event_writes(d, ename, section_id) ==
    LET HasName(r) == r.name = ename
        new == d.seq.events + 1
        rows == IF RowIds({x \in Rows(d.events) : HasName(x)}) = {}
                THEN Append(d.events, [id |-> new, name |-> ename, section_id |-> section_id])
                ELSE d.events
        row == CHOOSE r \in Rows(rows) : HasName(r)
        inserted == [d EXCEPT !.events = rows, !.seq.events = new]
    IN  IF section_id # NULL /\ row.section_id # section_id
        THEN <<inserted, upsert_event(d, ename, section_id).db>>
        ELSE <<inserted>>

upsert_market_writes(d, mname, event_id, snapshot_id) ==
    LET HasName(r) == r.name = mname
        new == d.seq.markets + 1
        rows == IF RowIds({x \in Rows(d.markets) : HasName(x)}) = {}
                THEN Append(d.markets, [id |-> new, name |-> mname, event_id |-> event_id,
                                        last_seen_snapshot_id |-> snapshot_id])
                ELSE d.markets
        row == CHOOSE r \in Rows(rows) : HasName(r)
        seen == [i \in 1..Len(rows) |->
                    IF rows[i].id = row.id
                    THEN [rows[i] EXCEPT !.last_seen_snapshot_id = snapshot_id]
                    ELSE rows[i]]
        inserted == [d EXCEPT !.markets = rows, !.seq.markets = new]
        stamped == [inserted EXCEPT !.markets = seen]
    IN  IF event_id # NULL /\ row.event_id # event_id
        THEN <<inserted, stamped, upsert_market(d, mname, event_id, snapshot_id).db>>
        ELSE <<inserted, stamped>>

upsert_entity_with_alias_writes(d, ename, snapshot_id, typ) ==
    LET k == canonical_key(ename)
        HasKey(r) == r.canonical_key = k
        found == RowIds({x \in Rows(d.entities) : HasKey(x)})
        id == NextId(d.entities)
        made == [d EXCEPT !.entities =
                    Append(@, [id |-> id, type |-> typ, canonical_name |-> ename,
                               canonical_key |-> k])]
    IN  IF found # {}
        THEN <<_upsert_alias(d, Min(found), ename, snapshot_id)>>
        ELSE <<made, _upsert_alias(made, id, ename, snapshot_id)>>

Last(seq) == seq[Len(seq)]

\* refresh statement by statement: the stores after each of its writes
RECURSIVE SectionsWrites(_, _)
SectionsWrites(d, sections) ==
    IF sections = <<>> THEN <<>>
    ELSE LET next == upsert_section(d, Head(sections)).db
         IN  <<next>> \o SectionsWrites(next, Tail(sections))

RECURSIVE ItemsWrites(_, _, _, _)
ItemsWrites(d, m_id, items, snap_id) ==
    IF items = <<>> THEN <<>>
    ELSE LET sel == Head(items)[1]
             odd == Head(items)[2]
         IN  IF ~ODDS_DUTCH_RE_match(odd)
             THEN ItemsWrites(d, m_id, Tail(items), snap_id)
             ELSE LET o == insert_outcome(d, m_id, sel, parse_dutch_decimal(odd)[1], snap_id)
                      ews == upsert_entity_with_alias_writes(o.db, sel, snap_id,
                                                             guess_entity_type(sel))
                      e_id == Min(RowIds({x \in Rows(Last(ews).entities) :
                                             x.canonical_key = canonical_key(sel)}))
                      linked == link_outcome_entity(Last(ews), o.id, e_id)
                  IN  <<o.db>> \o ews \o <<linked>>
                          \o ItemsWrites(linked, m_id, Tail(items), snap_id)

RECURSIVE BlocksWrites(_, _, _, _)
BlocksWrites(d, bs, sections, snap_id) ==
    IF bs = <<>> THEN <<>>
    ELSE LET market_title == Head(bs)[1]
             maybe_section == _match_section_for_market(market_title, sections)
             evs == IF maybe_section # <<>>
                    THEN upsert_event_writes(d, maybe_section[1], SectionId(d, maybe_section[1]))
                    ELSE <<>>
             ev == IF maybe_section # <<>>
                   THEN upsert_event(d, maybe_section[1], SectionId(d, maybe_section[1]))
                   ELSE [db |-> d, id |-> NULL]
             ms == upsert_market_writes(ev.db, market_title, ev.id, snap_id)
             m == upsert_market(ev.db, market_title, ev.id, snap_id)
             its == ItemsWrites(Last(ms), m.id, Head(bs)[2], snap_id)
             done == IF its = <<>> THEN Last(ms) ELSE Last(its)
         IN  evs \o ms \o its \o BlocksWrites(done, Tail(bs), sections, snap_id)

refresh_writes(d, url, html, sections, market_blocks) ==
    LET s == new_snapshot(d, url, html)
        secs == SectionsWrites(s.db, sections)
        withSections == IF secs = <<>> THEN s.db ELSE Last(secs)
    IN  <<s.db>> \o secs \o BlocksWrites(withSections, market_blocks, sections, s.id)

\* mutant: the markets of the blocks are stamped, their entries are not stored
refresh_NoOutcomes(d, url, html, sections, market_blocks) ==
    LET s == new_snapshot(d, url, html)
        withSections == UpsertSections(s.db, sections)
        titles == [i \in 1..Len(market_blocks) |-> <<market_blocks[i][1], <<>>>>]
    IN  [db |-> IngestBlocks(withSections, titles, sections, s.id),
         id |-> s.id]

\* html stands for the fetched page; sections and market_blocks are the
\* values of _extract_sections(lines) and _extract_market_blocks(lines) for
\* the lines _extract_text_lines makes of it
refresh(d, url, html, sections, market_blocks) ==
    LET s == new_snapshot(d, url, html)
        withSections == UpsertSections(s.db, sections)
    IN  [db |-> IngestBlocks(withSections, market_blocks, sections, s.id),
         id |-> s.id]

----------------------------------------------------------------------------
(* SpecKey: canonical_key applied to every bounded string, then to its     *)
(* own result.                                                             *)

RECURSIVE StringsUpTo(_, _)
StringsUpTo(alphabet, n) ==
    IF n = 0 THEN {<<>>}
    ELSE LET shorter == StringsUpTo(alphabet, n - 1)
         IN  shorter \cup {Append(s, c) : s \in shorter, c \in alphabet}

KeyAlphabet == {"E", "a", "é", " ", "\t", "-"}

Perez == <<"P", "e", "r", "e", "z">>
PerezAccent == <<"P", "é", "r", "e", "z">>
PerezSergio == <<"P", "é", "r", "e", "z", ",", " ", "S", "e", "r", "g", "i", "o">>
VerstappenMax ==
    <<"V", "e", "r", "s", "t", "a", "p", "p", "e", "n", ",", " ", "M", "a", "x">>
VerstappenMaxNoComma ==
    <<"V", "e", "r", "s", "t", "a", "p", "p", "e", "n", " ", "M", "a", "x">>

SampleNames == {Perez, PerezAccent, PerezSergio, VerstappenMax, VerstappenMaxNoComma}

KeyInputs == StringsUpTo(KeyAlphabet, MaxKeyLen) \cup SampleNames

InitKey ==
    /\ pc = "key_start"
    /\ cog = <<>>
    /\ name \in KeyInputs
    /\ key = <<>> /\ key2 = <<>>
    /\ lines = <<>> /\ scan = <<>> /\ blocks = <<>>
    /\ db = <<>> /\ ret = <<>>

KeyCall ==
    /\ pc = "key_start"
    /\ key' = canonical_key(name)
    /\ pc' = "keyed"
    /\ UNCHANGED <<name, key2, blockVars, storeVars, botVars>>

KeyAgain ==
    /\ pc = "keyed"
    /\ key2' = canonical_key(key)
    /\ pc' = "rekeyed"
    /\ UNCHANGED <<name, key, blockVars, storeVars, botVars>>

NextKey == KeyCall \/ KeyAgain

SpecKey == InitKey /\ [][NextKey]_vars

----------------------------------------------------------------------------
(* SpecOdds: every bounded odds text is first tried against ODDS_DUTCH_RE  *)
(* and then handed to parse_dutch_decimal, whether it matched or not; key  *)
(* holds the outcome of the match and ret what the parse returned (<<>>    *)
(* when float raised ValueError).                                          *)

OddsAlphabet == {"0", "1", ".", ","}

Str1250 == <<"1", "2", ",", "5", "0">>
Str1dot5 == <<"1", ".", "5">>
Str12 == <<"1", "2">>
Str1comma5 == <<"1", ",", "5">>
Str12comma5 == <<"1", "2", ",", "5">>
StrAbc == <<"a", "b", "c">>

OddsHeads == {<<"1">>, <<"1", "2">>, <<"1", "2", "0">>, <<"1", "2", "3", "4">>}
OddsGroups == {<<".", "2", "3", "4">>, <<".", "0", "0", "0">>, <<".", "2", "3">>}
OddsTails == {<<>>, <<",", "5">>, <<",", "5", "6">>, <<",", "0", "0">>, <<",", "5", "6", "7">>}

Str1234567comma89 == <<"1", ".", "2", "3", "4", ".", "5", "6", "7", ",", "8", "9">>

OddsInputs ==
    StringsUpTo(OddsAlphabet, MaxOddsLen)
        \cup {h \o r \o t : h \in OddsHeads, r \in {<<>>} \cup OddsGroups, t \in OddsTails}
        \cup {Str1250, Str1dot5, Str12, Str1comma5, Str12comma5, StrAbc, Str1234567comma89}

InitOdds ==
    /\ pc = "odds_start"
    /\ cog = <<>>
    /\ name \in OddsInputs
    /\ key = <<>> /\ key2 = <<>>
    /\ lines = <<>> /\ scan = <<>> /\ blocks = <<>>
    /\ db = <<>> /\ ret = <<>>

OddsMatch ==
    /\ pc = "odds_start"
    /\ key' = ODDS_DUTCH_RE_match(name)
    /\ pc' = "matched"
    /\ UNCHANGED <<name, key2, blockVars, storeVars, botVars>>

OddsParse ==
    /\ pc = "matched"
    /\ ret' = parse_dutch_decimal(name)
    /\ pc' = "parsed"
    /\ UNCHANGED <<name, key, key2, blockVars, db, botVars>>

NextOdds == OddsMatch \/ OddsParse

SpecOdds == InitOdds /\ [][NextOdds]_vars

----------------------------------------------------------------------------
(* SpecBlocks: _extract_market_blocks run line by line on every bounded    *)
(* sequence of lines.                                                      *)

RaceWinner == <<"R", "a", "c", "e", " ", "W", "i", "n", "n", "e", "r">>
SprintTitle == <<"S", "p", "r", "i", "n", "t">>
MaxLine == <<"M", "a", "x">>
LandoLine == <<"L", "a", "n", "d", "o">>
Odds150 == <<"1", ",", "5", "0">>
Odds800 == <<"8", ",", "0", "0">>
BekijkMeer == <<"B", "e", "k", "i", "j", "k", " ", "m", "e", "e", "r">>

\* every kind of line: two titles, two selections, two odds tokens, the filler
LineVocab == {RaceWinner, SprintTitle, MaxLine, LandoLine, Odds150, Odds800, BekijkMeer}

\* the lines that follow the title of a single block
PairVocab == {MaxLine, LandoLine, Odds150}

\* two titles, a selection and an odds token, for inputs of several blocks
TitleVocab == {RaceWinner, SprintTitle, MaxLine, Odds150}

BlockInputs ==
    StringsUpTo(LineVocab, MaxShortLines)
        \cup {<<RaceWinner>> \o s : s \in StringsUpTo(PairVocab, MaxPairLines)}
        \cup StringsUpTo(TitleVocab, MaxLines)

InitBlocks ==
    /\ pc = "scan"
    /\ cog = <<>>
    /\ lines \in BlockInputs
    /\ scan = ScanStart
    /\ blocks = <<>>
    /\ name = <<>> /\ key = <<>> /\ key2 = <<>>
    /\ db = <<>> /\ ret = <<>>

\* mutant: the pair test comes before the title test
ScanStep_PairFirst ==
    /\ pc = "scan"
    /\ scan.i <= Len(lines)
    /\ scan' = IF /\ scan.title # <<>>
                  /\ scan.i + 1 <= Len(lines)
                  /\ ODDS_DUTCH_RE_match(lines[scan.i + 1])
               THEN [scan EXCEPT !.items = Append(scan.items,
                                      <<wsnorm(lines[scan.i]), lines[scan.i + 1]>>),
                                 !.i = scan.i + 2]
               ELSE ScanLine(lines, scan)
    /\ UNCHANGED <<pc, lines, blocks, keyVars, storeVars, botVars>>

\* the body of the while loop, once
ScanStep ==
    /\ pc = "scan"
    /\ scan.i <= Len(lines)
    /\ scan' = ScanLine(lines, scan)
    /\ UNCHANGED <<pc, lines, blocks, keyVars, storeVars, botVars>>

\* the loop has ended: flush(); return blocks
ScanReturn ==
    /\ pc = "scan"
    /\ ~(scan.i <= Len(lines))
    /\ scan' = flush(scan)
    /\ blocks' = scan'.blocks
    /\ pc' = "returned"
    /\ UNCHANGED <<lines, keyVars, storeVars, botVars>>

NextBlocks == ScanStep \/ ScanReturn

SpecBlocks == InitBlocks /\ [][NextBlocks]_vars

\* the loop run line by line returns what the function returns
\* every block collected so far has a title and an entry
BlocksHaveEntries ==
    \A i \in 1..Len(blocks) : blocks[i][1] # <<>> /\ blocks[i][2] # <<>>

ScanAgrees == pc = "returned" => blocks = _extract_market_blocks(lines)

----------------------------------------------------------------------------
(* SpecFiller: the scan loop over lines that include a filler line which   *)
(* is also a candidate title ("Bekijk meer races" contains "race").        *)

BekijkMeerRaces == <<"B", "e", "k", "i", "j", "k", " ", "m", "e", "e", "r", " ", "r", "a", "c", "e", "s">>

FillerVocab == {RaceWinner, SprintTitle, BekijkMeerRaces, MaxLine, Odds150}

FillerInputs == StringsUpTo(FillerVocab, MaxShortLines)

InitFiller ==
    /\ pc = "scan"
    /\ cog = <<>>
    /\ lines \in FillerInputs
    /\ scan = ScanStart
    /\ blocks = <<>>
    /\ name = <<>> /\ key = <<>> /\ key2 = <<>>
    /\ db = <<>> /\ ret = <<>>

NextFiller == ScanStep \/ ScanReturn

SpecFiller == InitFiller /\ [][NextFiller]_vars

----------------------------------------------------------------------------
(* Spec: the store under refresh cycles, run one at a time, and under      *)
(* direct calls of the DB operations with references to existing rows.     *)
(* ret is the last call: <<operation, arguments, returned id>>.            *)

TOTO_F1_OUTRIGHTS_URL == "https://sport.toto.nl/wedden/sport/4090/formule-1/outrights"

AllesLine == <<"A", "l", "l", "e", "s">>
Formula12024 == <<"F", "o", "r", "m", "u", "l", "a", " ", "1", " ", "2", "0", "2", "4">>

\* the extracted lines of the pages a fetch can return; a page is named by
\* its index
Pages ==
    << \* the end-to-end scenario
       <<AllesLine, Formula12024, RaceWinner, VerstappenMax, Odds150, PerezSergio, Odds800>>,
       \* the same market later: one name respelled, new odds
       <<AllesLine, Formula12024, RaceWinner, VerstappenMaxNoComma, Odds800>>,
       \* a page that shows that market's title without entries
       <<RaceWinner, SprintTitle, VerstappenMax, Odds150, BekijkMeer, VerstappenMax, Odds150>> >>

\* what refresh extracts from each page (lines 216, 217 and 220); it depends
\* on the page only
Extracted ==
    [p \in 1..Len(Pages) |->
        [sections |-> _extract_sections(Pages[p]),
         market_blocks |-> _extract_market_blocks(Pages[p])]]

\* refresh, lines 201-213: which fetchers are called and what comes of it.
\* rendered and static say what _fetch_rendered_html and _fetch_html do when
\* called: 0 when the call raises, else the page it returns. calls lists
\* the fetchers called, in order.
Modes == {"auto", "playwright", "requests"}

FetchOutcomes == 0..Len(Pages)

\* mutant: 'playwright' falls back to the static fetch as 'auto' does
fetch_AlwaysFallBack(mode, rendered, static) ==
    LET try == mode \in {"auto", "playwright"}
    IN  IF try /\ rendered # 0
        THEN [raised |-> FALSE, html |-> rendered, used_playwright |-> TRUE,
              calls |-> <<"_fetch_rendered_html">>]
        ELSE [raised |-> static = 0, html |-> static, used_playwright |-> FALSE,
              calls |-> (IF try THEN <<"_fetch_rendered_html">> ELSE <<>>) \o <<"_fetch_html">>]

fetch(mode, rendered, static) ==
    LET try == mode \in {"auto", "playwright"}
    IN  IF try /\ rendered # 0
        THEN [raised |-> FALSE, html |-> rendered, used_playwright |-> TRUE,
              calls |-> <<"_fetch_rendered_html">>]
        ELSE IF try /\ mode = "playwright"
        THEN [raised |-> TRUE, html |-> 0, used_playwright |-> FALSE,
              calls |-> <<"_fetch_rendered_html">>]
        ELSE [raised |-> static = 0, html |-> static, used_playwright |-> FALSE,
              calls |-> (IF try THEN <<"_fetch_rendered_html">> ELSE <<>>) \o <<"_fetch_html">>]

\* mutant: the snapshot row is written before the page is fetched
refresh_fetch_SnapshotFirst(d, url, mode, rendered, static) ==
    LET f == fetch(mode, rendered, static)
    IN  IF f.raised
        THEN [db |-> new_snapshot(d, url, 0).db, id |-> NULL, raised |-> TRUE, calls |-> f.calls]
        ELSE LET r == refresh(d, url, f.html, Extracted[f.html].sections,
                              Extracted[f.html].market_blocks)
             IN  [db |-> r.db, id |-> r.id, raised |-> FALSE, calls |-> f.calls]

\* refresh as a whole: an exception of the fetch leaves before line 215. The
\* pages hold no <noscript> text, so that the lines of a page are the same
\* for either value of drop_noscript.
refresh_fetch(d, url, mode, rendered, static) ==
    LET f == fetch(mode, rendered, static)
    IN  IF f.raised
        THEN [db |-> d, id |-> NULL, raised |-> TRUE, calls |-> f.calls]
        ELSE LET r == refresh(d, url, f.html, Extracted[f.html].sections,
                              Extracted[f.html].market_blocks)
             IN  [db |-> r.db, id |-> r.id, raised |-> FALSE, calls |-> f.calls]

MarketNames == {RaceWinner, SprintTitle}
SectionTitles == {Formula12024, RaceWinner}
EntityNames == {VerstappenMax, VerstappenMaxNoComma, PerezSergio}
OutcomeSelections == {VerstappenMax}
\* odds 0 and 2.0
OddsValues == {Decimal(0, 0), Decimal(200, 2)}

SnapshotIds == {r.id : r \in Rows(db.snapshots)}
SectionIds == {r.id : r \in Rows(db.sections)}
EventIds == {r.id : r \in Rows(db.events)}
MarketIds == {r.id : r \in Rows(db.markets)}
OutcomeIds == {r.id : r \in Rows(db.outcomes)}
EntityIds == {r.id : r \in Rows(db.entities)}

Init ==
    /\ pc = "store"
    /\ cog = <<>>
    /\ db = EmptyDB
    /\ ret = <<"DB", <<>>, NULL>>
    /\ name = <<>> /\ key = <<>> /\ key2 = <<>>
    /\ lines = <<>> /\ scan = <<>> /\ blocks = <<>>

Call(op, args, r) ==
    \E done \in {r} :
        /\ db' = done.db
        /\ ret' = <<op, args, done.id>>
        /\ UNCHANGED <<pc, keyVars, blockVars, botVars>>

\* a query: the store is left alone, ret holds the value returned
Query(op, args, value) ==
    /\ ret' = <<op, args, value>>
    /\ UNCHANGED <<db, pc, keyVars, blockVars, botVars>>

Refresh ==
    \E p \in 1..Len(Pages) :
        /\ Len(db.snapshots) < MaxSnapshots
        /\ Call("refresh", <<p>>,
                refresh(db, TOTO_F1_OUTRIGHTS_URL, p,
                        Extracted[p].sections, Extracted[p].market_blocks))

NewSnapshot ==
    /\ Len(db.snapshots) < MaxSnapshots
    /\ Call("new_snapshot", <<1>>, new_snapshot(db, TOTO_F1_OUTRIGHTS_URL, 1))

UpsertSection ==
    \E t \in SectionTitles :
        /\ db.seq.sections < MaxSeq
        /\ Call("upsert_section", <<t>>, upsert_section(db, t))

UpsertEvent ==
    \E n \in SectionTitles, sec \in SectionIds \cup {NULL} :
        /\ db.seq.events < MaxSeq
        /\ Call("upsert_event", <<n, sec>>, upsert_event(db, n, sec))

UpsertMarket ==
    \E n \in MarketNames, ev \in EventIds \cup {NULL}, sn \in SnapshotIds :
        /\ db.seq.markets < MaxSeq
        /\ Call("upsert_market", <<n, ev, sn>>, upsert_market(db, n, ev, sn))

InsertOutcome ==
    \E m \in MarketIds, sel \in OutcomeSelections, o \in OddsValues, sn \in SnapshotIds :
        /\ Len(db.outcomes) < MaxOutcomes
        /\ Call("insert_outcome", <<m, sel, o, sn>>, insert_outcome(db, m, sel, o, sn))

UpsertEntityWithAlias ==
    \E n \in EntityNames, sn \in SnapshotIds :
        Call("upsert_entity_with_alias", <<n, sn>>,
             upsert_entity_with_alias(db, n, sn, guess_entity_type(n)))

LinkOutcomeEntity ==
    \E o \in OutcomeIds, e \in EntityIds :
        Call("link_outcome_entity", <<o, e>>,
             [db |-> link_outcome_entity(db, o, e), id |-> NULL])

\* also asked of an id that is no market's
ListOutcomesLatest ==
    \E m \in MarketIds \cup {db.seq.markets + 1} :
        Query("list_outcomes_latest", <<m>>, list_outcomes_latest(db, m))

\* refresh(mode) with whatever the two fetchers do; ret holds what the
\* caller sees (the exception or the snapshot id) and the fetchers called
RefreshFetch ==
    \E mode \in Modes, rendered \in FetchOutcomes, static \in FetchOutcomes :
        \E r \in {refresh_fetch(db, TOTO_F1_OUTRIGHTS_URL, mode, rendered, static)} :
            /\ Len(r.db.snapshots) <= MaxSnapshots
            /\ db' = r.db
            /\ ret' = <<"refresh", <<mode, rendered, static>>,
                        [raised |-> r.raised, id |-> r.id, calls |-> r.calls]>>
            /\ UNCHANGED <<pc, keyVars, blockVars, botVars>>

\* refresh cycles one at a time, and entities resolved directly
Next ==
    \/ Refresh
    \/ UpsertEntityWithAlias

Spec == Init /\ [][Next]_vars

\* SpecRepeat: refresh cycles of pages that show two blocks, either under
\* two titles or twice under one
RepeatTitles == <<RaceWinner, SprintTitle>>
RepeatOdds == <<Odds150, Odds800>>

RepeatPage(a, b, c, d) ==
    <<RepeatTitles[a], MaxLine, RepeatOdds[c], RepeatTitles[b], MaxLine, RepeatOdds[d]>>

\* the page text stands in the store as a number
RepeatHtml(a, b, c, d) == 8 * a + 4 * b + 2 * c + d

RefreshRepeat ==
    \E a \in 1..2, b \in 1..2, c \in 1..2, d \in 1..2 :
        /\ Len(db.snapshots) < MaxSnapshots
        /\ Call("refresh", <<RepeatPage(a, b, c, d)>>,
                refresh(db, TOTO_F1_OUTRIGHTS_URL, RepeatHtml(a, b, c, d),
                        _extract_sections(RepeatPage(a, b, c, d)),
                        _extract_market_blocks(RepeatPage(a, b, c, d))))

NextRepeat == RefreshRepeat

SpecRepeat == Init /\ [][NextRepeat]_vars

\* refresh cycles and markets upserted directly
NextMarkets ==
    \/ Refresh
    \/ NewSnapshot
    \/ UpsertMarket

SpecMarkets == Init /\ [][NextMarkets]_vars

\* refresh cycles, markets and outcomes written directly, and the query
NextOutcomes ==
    \/ Refresh
    \/ UpsertMarket
    \/ InsertOutcome
    \/ ListOutcomesLatest

SpecOutcomes == Init /\ [][NextOutcomes]_vars

\* what the direct calls have used up: the ids handed out or burnt by the
\* upserts of the dimension tables, and the entities made
DirectCalls(d) == d.seq.sections + d.seq.events + d.seq.markets + Len(d.entities)

\* the dimension tables written directly, MaxCalls upserts at most
NextDims ==
    \/ NewSnapshot
    \/ UpsertSection /\ DirectCalls(db') <= MaxCalls
    \/ UpsertEvent /\ DirectCalls(db') <= MaxCalls
    \/ UpsertMarket /\ DirectCalls(db') <= MaxCalls

SpecDims == Init /\ [][NextDims]_vars

\* every upsert called directly; entities resolved again at will
NextUpserts ==
    \/ NewSnapshot
    \/ UpsertSection /\ DirectCalls(db') <= MaxUpserts
    \/ UpsertEvent /\ DirectCalls(db') <= MaxUpserts
    \/ UpsertMarket /\ DirectCalls(db') <= MaxUpserts
    \/ UpsertEntityWithAlias /\ DirectCalls(db') <= MaxUpserts

SpecUpserts == Init /\ [][NextUpserts]_vars

(* SpecMatch: refresh of every page made of the sentinel, up to MinTabs    *)
(* tab lines and one market block.                                         *)

GrandPrix == <<"G", "r", "a", "n", "d", " ", "P", "r", "i", "x">>
Qualification == <<"Q", "u", "a", "l", "i", "f", "i", "c", "a", "t", "i", "o", "n">>
Kwalificatie == <<"K", "w", "a", "l", "i", "f", "i", "c", "a", "t", "i", "e">>
ShootoutWinnaar == <<"S", "h", "o", "o", "t", "o", "u", "t", " ", "W", "i", "n", "n", "a", "a", "r">>
TopQualifying == <<"T", "o", "p", " ", "Q", "u", "a", "l", "i", "f", "y", "i", "n", "g">>
ConstructorTitle == <<"C", "o", "n", "s", "t", "r", "u", "c", "t", "o", "r">>

TabVocab ==
    {<<"F", "o", "r", "m", "u", "l", "a", " ", "1", " ", "2", "0", "2", "4">>,
     GrandPrix, Qualification, SprintTitle, Kwalificatie}

MarketTitleVocab == {RaceWinner, ShootoutWinnaar, TopQualifying, ConstructorTitle}

MatchPages ==
    {<<<<"A", "l", "l", "e", "s">>>> \o tabs \o <<t, MaxLine, Odds150>> :
        tabs \in UNION {[1..n -> TabVocab] : n \in 0..MinTabs}, t \in MarketTitleVocab}

InitMatch ==
    /\ pc = "store"
    /\ cog = <<>>
    /\ db = EmptyDB
    /\ ret = <<"DB", <<>>, NULL>>
    /\ name = <<>> /\ key = <<>> /\ key2 = <<>>
    /\ lines \in MatchPages
    /\ scan = <<>> /\ blocks = <<>>

\* refresh when the fetch returns the page whose visible lines are lines
RefreshLines ==
    /\ Len(db.snapshots) < MaxSnapshots
    /\ Call("refresh", <<>>,
            refresh(db, TOTO_F1_OUTRIGHTS_URL, lines,
                    _extract_sections(lines), _extract_market_blocks(lines)))

NextMatch == RefreshLines

SpecMatch == InitMatch /\ [][NextMatch]_vars

----------------------------------------------------------------------------
(* SpecSections: _extract_sections on every bounded sequence of lines.     *)

MaxSectionLines == 6

RaceHyphen == <<"R", "a", "c", "e", " ", "-", " ", "M", "a", "x">>

\* the sentinel, four tabs, a line with a spaced hyphen, a selection
SectionVocab ==
    {<<"A", "l", "l", "e", "s">>, <<"F", "o", "r", "m", "u", "l", "a", " ", "1", " ", "2", "0", "2", "4">>,
     RaceWinner, SprintTitle, Kwalificatie, RaceHyphen, MaxLine}

SectionInputs == UNION {[1..n -> SectionVocab] : n \in 0..MaxSectionLines}

InitSections ==
    /\ pc = "sections_start"
    /\ cog = <<>>
    /\ name = <<>> /\ key = <<>> /\ key2 = <<>>
    /\ lines \in SectionInputs
    /\ scan = <<>> /\ blocks = <<>>
    /\ db = <<>> /\ ret = <<>>

ExtractSections ==
    /\ pc = "sections_start"
    /\ ret' = _extract_sections(lines)
    /\ pc' = "sections_done"
    /\ UNCHANGED <<keyVars, blockVars, db, botVars>>

NextSections == ExtractSections

SpecSections == InitSections /\ [][NextSections]_vars

----------------------------------------------------------------------------
\* a refresh whose process dies after n of its writes
RefreshCrash ==
    \E p \in 1..Len(Pages) :
        /\ Len(db.snapshots) < MaxSnapshots
        /\ \E ws \in {refresh_writes(db, TOTO_F1_OUTRIGHTS_URL, p,
                                      Extracted[p].sections, Extracted[p].market_blocks)} :
              \E n \in 1..(Len(ws) - 1) :
                  Call("refresh_crash", <<p, n>>, [db |-> ws[n], id |-> NULL])

\* refresh cycles that end and refresh cycles that die
NextCrash ==
    \/ Refresh
    \/ RefreshCrash

SpecCrash == Init /\ [][NextCrash]_vars

\* the statements of a refresh add up to the refresh
WritesAgree ==
    \A p \in 1..Len(Pages) :
        Last(refresh_writes(db, TOTO_F1_OUTRIGHTS_URL, p,
                            Extracted[p].sections, Extracted[p].market_blocks))
            = refresh(db, TOTO_F1_OUTRIGHTS_URL, p,
                      Extracted[p].sections, Extracted[p].market_blocks).db

VerstappenCaps == <<"V", "E", "R", "S", "T", "A", "P", "P", "E", "N", " ", "M", "A", "X">>

\* spellings of the pages, one they never show, and a name no page has
FindInputs == EntityNames \cup {VerstappenCaps, LandoLine}

FindEntity ==
    \E x \in FindInputs :
        \E r \in find_entity(db, x) : Query("find_entity", <<x>>, r)

\* refresh cycles, entities resolved directly, and the lookup
NextFind ==
    \/ Refresh
    \/ UpsertEntityWithAlias
    \/ FindEntity

SpecFind == Init /\ [][NextFind]_vars

\* also asked of an id that is no entity's
EntityOddsHistory ==
    \E e \in EntityIds \cup {Len(db.entities) + 1} :
        Query("entity_odds_history", <<e>>, entity_odds_history(db, e))

\* refresh cycles, snapshots, outcomes and links written directly, and the
\* history query
NextHistory ==
    \/ Refresh
    \/ NewSnapshot
    \/ InsertOutcome
    \/ LinkOutcomeEntity
    \/ EntityOddsHistory

SpecHistory == Init /\ [][NextHistory]_vars

\* refresh cycles, fetch included
NextFetch == RefreshFetch

SpecFetch == Init /\ [][NextFetch]_vars

\* outcomes linked directly
NextLinks ==
    \/ Refresh
    \/ InsertOutcome
    \/ LinkOutcomeEntity

SpecLinks == Init /\ [][NextLinks]_vars

----------------------------------------------------------------------------
(* The command-line entry points: toto_f1_api.py run as a script, and      *)
(* scripts/dump_toto_db.py. cog.exists says whether the file named by --db *)
(* exists; db is its content once it does. A run is one step; ret holds    *)
(* the exit status and the fetchers the run called.                        *)

InitCli ==
    /\ pc = "shell"
    /\ cog = [exists |-> FALSE]
    /\ db = EmptyDB
    /\ ret = <<"sh", <<>>, [exit |-> 0, calls |-> <<>>]>>
    /\ name = <<>> /\ key = <<>> /\ key2 = <<>>
    /\ lines = <<>> /\ scan = <<>> /\ blocks = <<>>

\* python toto_f1_api.py --db F [--refresh] [--mode M] [--list]: what the
\* run leaves in F, its exit status and the fetchers it called.
\* sqlite3.connect in DB.__init__ creates F when it is missing.
toto_f1_api_main(d, refresh_flag, mode, list_flag, rendered, static) ==
    LET NoRefresh(store) == [db |-> store, id |-> NULL, raised |-> FALSE, calls |-> <<>>]
        \* if args.refresh: client.refresh(mode=args.mode)
        First == IF refresh_flag
                 THEN refresh_fetch(d, TOTO_F1_OUTRIGHTS_URL, mode, rendered, static)
                 ELSE NoRefresh(d)
        \* if args.list: ... if not markets and not args.refresh: client.refresh(mode="requests")
        Second(first) ==
            IF list_flag /\ ~refresh_flag /\ first.db.markets = <<>>
            THEN refresh_fetch(first.db, TOTO_F1_OUTRIGHTS_URL, "requests", rendered, static)
            ELSE NoRefresh(first.db)
        Exit(first, second) ==
            IF first.raised
            THEN [db |-> first.db, exit |-> 1, calls |-> first.calls]
            ELSE [db |-> second.db, exit |-> IF second.raised THEN 1 ELSE 0,
                  calls |-> first.calls \o second.calls]
    IN  CHOOSE r \in UNION {{Exit(first, second) : second \in {Second(first)}} :
                                first \in {First}} : TRUE

TotoF1ApiMain ==
    \E refresh_flag \in BOOLEAN, list_flag \in BOOLEAN, mode \in Modes,
       rendered \in FetchOutcomes, static \in FetchOutcomes :
        \E r \in {toto_f1_api_main(db, refresh_flag, mode, list_flag, rendered, static)} :
            /\ Len(r.db.snapshots) <= MaxSnapshots
            /\ cog' = [cog EXCEPT !.exists = TRUE]
            /\ db' = r.db
            /\ ret' = <<"toto_f1_api", <<refresh_flag, mode, list_flag>>,
                        [exit |-> r.exit, calls |-> r.calls]>>
            /\ UNCHANGED <<pc, keyVars, blockVars>>

\* python scripts/dump_toto_db.py --db F
DumpTotoDb ==
    /\ ret' = <<"dump_toto_db", <<>>,
                [exit |-> IF cog.exists THEN 0 ELSE 1, calls |-> <<>>]>>
    /\ UNCHANGED <<cog, db, pc, keyVars, blockVars>>

\* rm F
RemoveDb ==
    /\ cog.exists
    /\ cog' = [cog EXCEPT !.exists = FALSE]
    /\ db' = EmptyDB
    /\ ret' = <<"rm", <<>>, [exit |-> 0, calls |-> <<>>]>>
    /\ UNCHANGED <<pc, keyVars, blockVars>>

NextCli ==
    \/ TotoF1ApiMain
    \/ DumpTotoDb
    \/ RemoveDb

SpecCli == InitCli /\ [][NextCli]_vars

----------------------------------------------------------------------------
(* BettingCog (leo_bot/cogs/betting.py): the market cache. The coroutines  *)
(* of the event loop are the hourly_update task and two /bet commands; a   *)
(* coroutine gives way at every await, and asyncio.to_thread runs          *)
(* TotoF1Client.refresh in a worker thread of its own meanwhile. cog holds *)
(* _last_cache_at (<<>> is None), the clock in minutes, the value of now   *)
(* each coroutine took on entry, when the hourly task is next due, and     *)
(* in_refresh, the coroutines whose worker thread is inside refresh.       *)
(* What sync_betting_channel and bet do after _refresh_market_cache        *)
(* returns starts no refresh and is left out.                              *)

CacheTtl == 45
LoopMinutes == 60
\* the clock moves in thirds of the time the cache stays fresh
TickMinutes == CacheTtl \div 3

Coroutines == {"hourly", "bet1", "bet2"}

InitCache ==
    /\ pc = [c \in Coroutines |-> "idle"]
    /\ cog = [_last_cache_at |-> <<>>, clock |-> 0, now |-> [c \in Coroutines |-> 0],
              due |-> 0, in_refresh |-> {}]
    /\ name = <<>> /\ key = <<>> /\ key2 = <<>>
    /\ lines = <<>> /\ scan = <<>> /\ blocks = <<>>
    /\ db = <<>> /\ ret = <<>>

\* _refresh_market_cache up to its first await: the cached list is returned,
\* or refresh_toto hands client.refresh to a worker thread
_refresh_market_cache(g, c, force) ==
    LET fresh == /\ ~force
                 /\ g._last_cache_at # <<>>
                 /\ g.clock - g._last_cache_at[1] < CacheTtl
    IN  IF fresh
        THEN [cog |-> [g EXCEPT !.now[c] = g.clock], at |-> "idle"]
        ELSE [cog |-> [g EXCEPT !.now[c] = g.clock, !.in_refresh = @ \cup {c}],
              at |-> "refresh_toto"]

\* hourly_update -> sync_betting_channel -> _refresh_market_cache(force=True)
HourlyUpdate ==
    /\ pc["hourly"] = "idle"
    /\ cog.clock >= cog.due
    /\ \E r \in {_refresh_market_cache([cog EXCEPT !.due = cog.clock + LoopMinutes],
                                        "hourly", TRUE)} :
          /\ pc' = [pc EXCEPT !["hourly"] = r.at]
          /\ cog' = r.cog
    /\ UNCHANGED <<keyVars, blockVars, storeVars>>

\* /bet: defer, then _refresh_market_cache()
Bet ==
    \E c \in Coroutines \ {"hourly"} :
        /\ pc[c] = "idle"
        /\ \E r \in {_refresh_market_cache(cog, c, FALSE)} :
              /\ pc' = [pc EXCEPT ![c] = r.at]
              /\ cog' = r.cog
        /\ UNCHANGED <<keyVars, blockVars, storeVars>>

\* client.refresh returns or raises in its thread (the exception is logged)
\* and the coroutine goes on to list_markets and fetch_markets
RefreshTotoDone ==
    \E c \in Coroutines :
        /\ pc[c] = "refresh_toto"
        /\ pc' = [pc EXCEPT ![c] = "list_markets"]
        /\ cog' = [cog EXCEPT !.in_refresh = @ \ {c}]
        /\ UNCHANGED <<keyVars, blockVars, storeVars>>

\* the rest of _refresh_market_cache: self._last_cache_at = now
StoreMarketCache ==
    \E c \in Coroutines :
        /\ pc[c] = "list_markets"
        /\ pc' = [pc EXCEPT ![c] = "idle"]
        /\ cog' = [cog EXCEPT !._last_cache_at = <<cog.now[c]>>]
        /\ UNCHANGED <<keyVars, blockVars, storeVars>>

\* time passes
Tick ==
    /\ cog.clock + TickMinutes <= MaxClock
    /\ cog' = [cog EXCEPT !.clock = @ + TickMinutes]
    /\ UNCHANGED <<pc, keyVars, blockVars, storeVars>>

NextCache ==
    \/ HourlyUpdate
    \/ Bet
    \/ RefreshTotoDone
    \/ StoreMarketCache
    \/ Tick

SpecCache == InitCache /\ [][NextCache]_vars

----------------------------------------------------------------------------
(* F1ClockCog (leo_bot/cogs/f1_clock.py): the rename tasks. Every task of  *)
(* asyncio.create_task(_runner()) has a number; pc[t] is where task t is   *)
(* (created and not yet run, suspended in channel.edit, done), and         *)
(* cog.tasks[t] holds its channel, its target and whether cancel() was     *)
(* called on it. cog._rename_tasks maps a channel to <<target, task>>, or  *)
(* to <<>> when the dict has no such key.                                  *)

MaxRenameTasks == 3

ChannelIds == {"eventname", "countdown"}
TargetNames == {"in 2 h", "in 1 h"}

InitRename ==
    /\ pc = <<>>
    /\ cog = [_rename_tasks |-> [c \in ChannelIds |-> <<>>], tasks |-> <<>>,
              unloaded |-> FALSE]
    /\ name = <<>> /\ key = <<>> /\ key2 = <<>>
    /\ lines = <<>> /\ scan = <<>> /\ blocks = <<>>
    /\ db = <<>> /\ ret = <<>>

\* Task.cancel(): nothing on a task that is done, else a request the event
\* loop delivers when it next runs the task
cancel(g, ps, t) ==
    IF ps[t] = "done" THEN g ELSE [g EXCEPT !.tasks[t].must_cancel = TRUE]

\* mutant: the pending task with the same target is replaced too
_schedule_channel_rename_Always(g, ps, channel_id, target_name) ==
    LET entry == g._rename_tasks[channel_id]
        g1 == IF entry # <<>> THEN cancel(g, ps, entry[2]) ELSE g
        task == Len(ps) + 1
    IN  [cog |-> [g1 EXCEPT !.tasks = Append(@, [channel |-> channel_id,
                                                 target |-> target_name,
                                                 must_cancel |-> FALSE]),
                            !._rename_tasks[channel_id] = <<target_name, task>>],
         pc |-> Append(ps, "created")]

_schedule_channel_rename(g, ps, channel_id, target_name) ==
    LET entry == g._rename_tasks[channel_id]
        g1 == IF entry # <<>> THEN cancel(g, ps, entry[2]) ELSE g
        task == Len(ps) + 1
    IN  IF entry # <<>> /\ entry[1] = target_name /\ ps[entry[2]] # "done"
        THEN [cog |-> g, pc |-> ps]
        ELSE [cog |-> [g1 EXCEPT !.tasks = Append(@, [channel |-> channel_id,
                                                      target |-> target_name,
                                                      must_cancel |-> FALSE]),
                                 !._rename_tasks[channel_id] = <<target_name, task>>],
              pc |-> Append(ps, "created")]

\* the finally block of _runner, run by task t
_runner_finally(g, t) ==
    LET channel_id == g.tasks[t].channel
        stored == g._rename_tasks[channel_id]
    IN  IF stored # <<>> /\ stored[2] = t
        THEN [g EXCEPT !._rename_tasks[channel_id] = <<>>]
        ELSE g

ScheduleChannelRename ==
    \E channel_id \in ChannelIds, target_name \in TargetNames :
        \E r \in {_schedule_channel_rename(cog, pc, channel_id, target_name)} :
            /\ ~cog.unloaded
            /\ Len(r.pc) <= MaxRenameTasks
            /\ cog' = r.cog
            /\ pc' = r.pc
            /\ ret' = <<"_schedule_channel_rename", <<channel_id, target_name>>, <<>>>>
            /\ UNCHANGED <<keyVars, blockVars, db>>

\* the event loop runs a created task for the first time: a task cancelled
\* before that gets CancelledError before its try block, else it calls
\* channel.edit and is suspended there
RunnerStart ==
    \E t \in 1..Len(pc) :
        /\ pc[t] = "created"
        /\ pc' = [pc EXCEPT ![t] = IF cog.tasks[t].must_cancel THEN "done" ELSE "edit"]
        /\ ret' = <<"_runner", <<t>>, IF cog.tasks[t].must_cancel THEN "cancelled" ELSE "edit">>
        /\ UNCHANGED <<cog, keyVars, blockVars, db>>

\* channel.edit returns or raises, or the cancellation is delivered there;
\* the finally block runs and the task is done
RunnerEnd ==
    \E t \in 1..Len(pc) :
        \E how \in IF cog.tasks[t].must_cancel THEN {"cancelled"} ELSE {"returned", "raised"} :
            /\ pc[t] = "edit"
            /\ cog' = _runner_finally(cog, t)
            /\ pc' = [pc EXCEPT ![t] = "done"]
            /\ ret' = <<"_runner", <<t>>, how>>
            /\ UNCHANGED <<keyVars, blockVars, db>>

CogUnload ==
    /\ ~cog.unloaded
    /\ cog' = [cog EXCEPT
                  !.tasks = [t \in 1..Len(pc) |->
                                IF /\ \E c \in ChannelIds :
                                         /\ cog._rename_tasks[c] # <<>>
                                         /\ cog._rename_tasks[c][2] = t
                                   /\ pc[t] # "done"
                                THEN [cog.tasks[t] EXCEPT !.must_cancel = TRUE]
                                ELSE cog.tasks[t]],
                  !._rename_tasks = [c \in ChannelIds |-> <<>>],
                  !.unloaded = TRUE]
    /\ ret' = <<"cog_unload", <<>>, <<>>>>
    /\ UNCHANGED <<pc, keyVars, blockVars, db>>

NextRename ==
    \/ ScheduleChannelRename
    \/ RunnerStart
    \/ RunnerEnd
    \/ CogUnload

SpecRename == InitRename /\ [][NextRename]_vars

----------------------------------------------------------------------------
(* F1ClockCog: the clock task. pc is where the task of _clock_loop is:     *)
(* created by cog_load and not yet run, suspended in wait_until_ready, in  *)
(* update_channels or in _sleep_until_next_mark, or ended by the           *)
(* CancelledError it re-raised. cog holds the bot's ready flag, the local  *)
(* first_run, the number of calls made to update_channels and to           *)
(* _sleep_until_next_mark, and whether cancel() was called on the task.    *)

MaxLoopCalls == 10
MaxTransactions == 2
MaxJobs == 3
MaxJobClock == 3

InitClock ==
    /\ pc = "created"
    /\ cog = [ready |-> FALSE, first_run |-> TRUE, updates |-> 0, sleeps |-> 0,
              must_cancel |-> FALSE]
    /\ name = <<>> /\ key = <<>> /\ key2 = <<>>
    /\ lines = <<>> /\ scan = <<>> /\ blocks = <<>>
    /\ db = <<>> /\ ret = <<>>

\* mutant: every round sleeps first
_clock_loop_round_SleepFirst(g) ==
    [cog |-> [g EXCEPT !.sleeps = @ + 1], pc |-> "_sleep_until_next_mark"]

\* the body of while True up to its first await
_clock_loop_round(g) ==
    IF ~g.first_run
    THEN [cog |-> [g EXCEPT !.sleeps = @ + 1], pc |-> "_sleep_until_next_mark"]
    ELSE [cog |-> [g EXCEPT !.first_run = FALSE, !.updates = @ + 1],
          pc |-> "update_channels"]

LoopCalls(g) == g.updates + g.sleeps

ClockStart ==
    /\ pc = "created"
    /\ pc' = IF cog.must_cancel THEN "cancelled" ELSE "wait_until_ready"
    /\ ret' = <<"_clock_loop", <<>>, IF cog.must_cancel THEN "cancelled" ELSE "started">>
    /\ UNCHANGED <<cog, keyVars, blockVars, db>>

\* the bot becomes ready
BotReady ==
    /\ ~cog.ready
    /\ cog' = [cog EXCEPT !.ready = TRUE]
    /\ ret' = <<"bot", <<>>, "ready">>
    /\ UNCHANGED <<pc, keyVars, blockVars, db>>

WaitUntilReadyReturns ==
    /\ pc = "wait_until_ready" /\ cog.ready /\ ~cog.must_cancel
    /\ \E r \in {_clock_loop_round(cog)} :
           /\ LoopCalls(r.cog) <= MaxLoopCalls
           /\ cog' = r.cog /\ pc' = r.pc
    /\ ret' = <<"wait_until_ready", <<>>, "returned">>
    /\ UNCHANGED <<keyVars, blockVars, db>>

\* _sleep_until_next_mark returns: update_channels is called
SleepReturns ==
    /\ pc = "_sleep_until_next_mark" /\ ~cog.must_cancel
    /\ LoopCalls(cog) < MaxLoopCalls
    /\ cog' = [cog EXCEPT !.updates = @ + 1]
    /\ pc' = "update_channels"
    /\ ret' = <<"_sleep_until_next_mark", <<>>, "returned">>
    /\ UNCHANGED <<keyVars, blockVars, db>>

\* update_channels returns, or the awaited call raises an Exception that
\* the loop logs: the next round starts
NextRound ==
    \E how \in {"returned", "raised"} :
        /\ pc \in {"update_channels", "_sleep_until_next_mark"} /\ ~cog.must_cancel
        /\ pc = "_sleep_until_next_mark" => how = "raised"
        /\ \E r \in {_clock_loop_round(cog)} :
               /\ LoopCalls(r.cog) <= MaxLoopCalls
               /\ cog' = r.cog /\ pc' = r.pc
        /\ ret' = <<pc, <<>>, how>>
        /\ UNCHANGED <<keyVars, blockVars, db>>

\* cog_unload: cancel() on the clock task
CancelClock ==
    /\ pc # "cancelled" /\ ~cog.must_cancel
    /\ cog' = [cog EXCEPT !.must_cancel = TRUE]
    /\ ret' = <<"cog_unload", <<>>, <<>>>>
    /\ UNCHANGED <<pc, keyVars, blockVars, db>>

\* the CancelledError reaches the task at the await it is suspended in
Cancelled ==
    /\ pc \in {"wait_until_ready", "update_channels", "_sleep_until_next_mark"}
    /\ cog.must_cancel
    /\ pc' = "cancelled"
    /\ ret' = <<pc, <<>>, "cancelled">>
    /\ UNCHANGED <<cog, keyVars, blockVars, db>>

NextClock ==
    \/ ClockStart
    \/ BotReady
    \/ WaitUntilReadyReturns
    \/ SleepReturns
    \/ NextRound
    \/ CancelClock
    \/ Cancelled

SpecClock == InitClock /\ [][NextClock]_vars

----------------------------------------------------------------------------
(* ScheduleCog.schedule (leo_bot/cogs/scheduler.py) and the functions of   *)
(* leo_bot/scheduler.py it calls. cog._jobs is manager._jobs, cog.call the *)
(* arguments of the invocation being handled; None is <<>>.                *)

\* value.split(sep) for a one-character sep
RECURSIVE split(_, _)
split(s, sep) ==
    IF \A i \in 1..Len(s) : s[i] # sep THEN <<s>>
    ELSE LET at == CHOOSE i \in 1..Len(s) : s[i] = sep /\ \A j \in 1..(i - 1) : s[j] # sep
         IN  <<SubSeq(s, 1, at - 1)>> \o split(SubSeq(s, at + 1, Len(s)), sep)

\* the longest prefix of s made of digits
RECURSIVE DigitRun(_)
DigitRun(s) ==
    IF s # <<>> /\ Head(s) \in Digits THEN <<Head(s)>> \o DigitRun(Tail(s)) ELSE <<>>

DurationUnits == {"h", "d", "w"}

HoursOf(amount, unit) ==
    IF unit = "h" THEN amount ELSE IF unit = "d" THEN amount * 24 ELSE amount * 7 * 24

\* DURATION_RE.findall(s) and the loop over its tokens: how many tokens
\* there are and the hours they add up to
RECURSIVE DurationTokens(_)
DurationTokens(s) ==
    IF s = <<>> THEN [tokens |-> 0, total_hours |-> 0]
    ELSE IF Head(s) \notin Digits THEN DurationTokens(Tail(s))
    ELSE LET run == DigitRun(s)
             rest == SubSeq(s, Len(run) + 1, Len(s))
             unit == DropWhile(rest, Whitespace)
         IN  IF unit # <<>> /\ Head(unit) \in DurationUnits
             THEN LET more == DurationTokens(Tail(unit))
                  IN  [tokens |-> more.tokens + 1,
                       total_hours |-> more.total_hours
                                          + HoursOf(DecimalValue(run), Head(unit))]
             ELSE DurationTokens(rest)

\* config.max_poll_hours
max_poll_hours == 32 * 24

\* None is <<>>, a number of seconds n is <<n>>
parse_duration(value) ==
    IF value = <<>> THEN <<>>
    ELSE LET t == DurationTokens(lower(strip(value)))
         IN  IF t.tokens = 0 \/ t.total_hours <= 0 THEN <<>>
             ELSE IF t.total_hours > max_poll_hours THEN <<max_poll_hours * 3600>>
             ELSE <<t.total_hours * 3600>>

DaysInMonth(y, mo) ==
    IF mo = 2 THEN (IF (y % 4 = 0 /\ y % 100 # 0) \/ y % 400 = 0 THEN 29 ELSE 28)
    ELSE IF mo \in {4, 6, 9, 11} THEN 30 ELSE 31

\* datetime.strptime(value, "%d.%m.%Y %H:%M") for values written with two
\* digits per field and four for the year: <<>> when it raises, else the
\* fields (day, month, year, hour, minute); with default_timezone UTC the
\* localized time is the UTC time
parse_when(value) ==
    IF Len(value) # 16 THEN <<>>
    ELSE LET IsNum(a, b) == \A i \in a..b : value[i] \in Digits
             Num(a, b) == DecimalValue(SubSeq(value, a, b))
         IN  IF /\ IsNum(1, 2) /\ value[3] = "." /\ IsNum(4, 5) /\ value[6] = "."
                /\ IsNum(7, 10) /\ value[11] = " " /\ IsNum(12, 13) /\ value[14] = ":"
                /\ IsNum(15, 16)
                /\ Num(7, 10) >= 1 /\ Num(4, 5) \in 1..12
                /\ Num(1, 2) \in 1..DaysInMonth(Num(7, 10), Num(4, 5))
                /\ Num(12, 13) <= 23 /\ Num(15, 16) <= 59
             THEN <<[day |-> Num(1, 2), month |-> Num(4, 5), year |-> Num(7, 10),
                     hour |-> Num(12, 13), minute |-> Num(15, 16)]>>
             ELSE <<>>

admin_ids == {1}

\* mutant: only a missing content is refused
IsBlankMessage_NoneOnly(content) == content = <<>>

\* content is None or not content.strip()
IsBlankMessage(content) == content = <<>> \/ strip(content) = <<>>

NonEmpty(s) == s # <<>>

Reply(jobs, text) == [jobs |-> jobs, response |-> [text |-> text, ephemeral |-> TRUE]]

\* the job of a poll, or the reply that refuses it
SchedulePoll(jobs, job, c) ==
    LET stripped == [i \in 1..Len(split(c.answers, ",")) |-> strip(split(c.answers, ",")[i])]
        options == SelectSeq(stripped, NonEmpty)
        emoji_list == IF c.emojis = <<>> THEN <<>>
                      ELSE [i \in 1..Len(split(c.emojis, ",")) |-> strip(split(c.emojis, ",")[i])]
        duration_seconds ==
            parse_duration(IF c.duration = <<>> THEN <<"2", "4", "h">> ELSE c.duration)
    IN  IF c.answers = <<>>
        THEN Reply(jobs, "Provide answers for the poll (comma-separated).")
        ELSE IF Len(options) < 2 \/ Len(options) > 25
        THEN Reply(jobs, "Poll needs 2-25 answers.")
        ELSE IF c.emojis # <<>> /\ Len(emoji_list) # Len(options)
        THEN Reply(jobs, "Number of emojis must match number of answers.")
        ELSE IF duration_seconds = <<>>
        THEN Reply(jobs, "Invalid duration. Usage: e.g., 1h or 48h or 3w5d13h; max. 32d")
        ELSE Reply(Append(jobs, [job EXCEPT !.question = c.content, !.options = options,
                                            !.emojis = emoji_list, !.allow_multi = c.multi,
                                            !.duration_s = duration_seconds]),
                   "Scheduled poll")

\* ScheduleCog.schedule: the job list it leaves and what it answers
schedule(jobs, c) ==
    LET run_at_utc == parse_when(c.when)
        target_channel == IF c.channel # "None" THEN c.channel ELSE c.interaction_channel
        job == [id |-> <<"now", c.interaction_id>>, kind |-> c.kind, channel |-> target_channel,
                run_at |-> run_at_utc, created_by |-> c.user, content |-> <<>>,
                question |-> <<>>, options |-> <<>>, emojis |-> <<>>, allow_multi |-> FALSE,
                duration_s |-> <<>>]
    IN  IF c.user \notin admin_ids THEN Reply(jobs, "Unauthorised.")
        ELSE IF run_at_utc = <<>> THEN Reply(jobs, "Invalid time. Use dd.mm.yyyy hh:mm.")
        ELSE IF target_channel # "TextChannel"
        THEN Reply(jobs, "Target must be a text channel.")
        ELSE IF c.kind = "message"
        THEN IF IsBlankMessage(c.content)
             THEN Reply(jobs, "Provide message text for scheduled messages.")
             ELSE Reply(Append(jobs, [job EXCEPT !.content = strip(c.content)]),
                        "Scheduled message")
        ELSE SchedulePoll(jobs, job, c)

WhenGood == <<"0", "1", ".", "0", "1", ".", "2", "0", "9", "9", " ", "1", "0", ":", "0", "0">>
WhenFeb31 == <<"3", "1", ".", "0", "2", ".", "2", "0", "9", "9", " ", "1", "0", ":", "0", "0">>
WhenSoon == <<"s", "o", "o", "n">>
WhenInputs == {<<>>, WhenGood, WhenFeb31, WhenSoon}
TextBlank == <<" ", " ", " ">>
TextHi == <<" ", "h", "i", " ">>
ContentInputs == {<<>>, TextBlank, TextHi}
AnswersOne == <<"a", ",", " ", ",">>
AnswersTwo == <<"a", ",", " ", "b">>
AnswersInputs == {<<>>, AnswersOne, AnswersTwo}
EmojisOne == <<"x">>
EmojisTwo == <<"x", ",", "y">>
EmojisInputs == {<<>>, EmojisOne, EmojisTwo}
DurationZero == <<"0", "h">>
DurationDays == <<"1", "W", " ", "2", " ", "d">>
DurationLong == <<"4", "0", "d">>
DurationInputs == {<<>>, DurationZero, DurationDays, DurationLong, WhenSoon}

ScheduleCalls ==
    [user : {1, 2}, interaction_id : {42}, kind : {"message", "poll"}, when : WhenInputs,
     channel : {"None", "TextChannel", "VoiceChannel"},
     interaction_channel : {"TextChannel", "Thread"},
     content : ContentInputs, answers : AnswersInputs, emojis : EmojisInputs,
     multi : BOOLEAN, duration : DurationInputs]

\* a job that manager.load() read from the schedule file
LoadedJob ==
    [id |-> <<"then", 7>>, kind |-> "message", channel |-> "TextChannel",
     run_at |-> parse_when(WhenGood), created_by |-> 1, content |-> <<"h", "i">>,
     question |-> <<>>, options |-> <<>>, emojis |-> <<>>, allow_multi |-> FALSE,
     duration_s |-> <<>>]

InitSchedule ==
    /\ pc = "schedule_called"
    /\ cog \in [_jobs : {<<>>, <<LoadedJob>>}, call : ScheduleCalls]
    /\ name = <<>> /\ key = <<>> /\ key2 = <<>>
    /\ lines = <<>> /\ scan = <<>> /\ blocks = <<>>
    /\ db = <<>> /\ ret = <<>>

Schedule ==
    /\ pc = "schedule_called"
    /\ \E r \in {schedule(cog._jobs, cog.call)} :
           /\ cog' = [cog EXCEPT !._jobs = r.jobs]
           /\ ret' = <<"schedule", <<>>, r.response>>
    /\ pc' = "schedule_answered"
    /\ UNCHANGED <<keyVars, blockVars, db>>

NextSchedule == Schedule

SpecSchedule == InitSchedule /\ [][NextSchedule]_vars

----------------------------------------------------------------------------
(* WalletStore (leo_bot/betting.py): wallets, transactions, message        *)
(* cooldowns and bets behind one connection and one threading.Lock.  db is *)
(* what the connection shows, cog is the thread holding the lock (0: none) *)
(* and pc is each thread's position in the method it runs.  Amounts are    *)
(* cents, message times are whole seconds.                                 *)

TOKEN_MULTIPLIER == 100
CooldownSeconds == 60

EmptyWallets ==
    [wallets |-> {}, transactions |-> <<>>, message_cooldowns |-> {}, bets |-> <<>>,
     in_transaction |-> FALSE]

\* raise e / return v, with the store the connection is left showing
Raise(d, e) == [db |-> d, raised |-> <<e>>, value |-> <<>>]
Return(d, v) == [db |-> d, raised |-> <<>>, value |-> <<v>>]

\* INSERT OR IGNORE INTO wallets (user_id): opens a transaction
_ensure_wallet_locked(d, user_id) ==
    [d EXCEPT !.wallets = IF \E w \in @ : w.user_id = user_id THEN @
                          ELSE @ \cup {[user_id |-> user_id, balance |-> 0]},
              !.in_transaction = TRUE]

\* SELECT balance FROM wallets WHERE user_id=?: the row, if any
SelectBalance(d, user_id) ==
    LET found == {w \in d.wallets : w.user_id = user_id}
    IN  IF found = {} THEN <<>> ELSE <<(CHOOSE w \in found : TRUE).balance>>

\* SELECT last_awarded FROM message_cooldowns WHERE user_id=?
SelectCooldown(d, user_id) ==
    LET found == {c \in d.message_cooldowns : c.user_id = user_id}
    IN  IF found = {} THEN <<>> ELSE <<(CHOOSE c \in found : TRUE).last_awarded>>

get_balance(d, user_id) ==
    LET row == SelectBalance(d, user_id)
    IN  IF row # <<>> THEN row[1] ELSE 0

commit(d) == [d EXCEPT !.in_transaction = FALSE]

\* mutant: the balance is not compared with zero
_add_transaction_locked_NoCheck(d, row, user_id, amount, description, meta) ==
    IF amount = 0 THEN Raise(d, "InvalidAmountError")
    ELSE LET balance == IF row = <<>> THEN 0 ELSE row[1]
             new_balance == balance + amount
         IN  Return([d EXCEPT
                        !.wallets = {IF w.user_id = user_id
                                     THEN [w EXCEPT !.balance = new_balance]
                                     ELSE w : w \in @},
                        !.transactions = Append(@, [user_id |-> user_id,
                            amount |-> amount, balance_after |-> new_balance,
                            description |-> description, meta |-> meta]),
                        !.in_transaction = TRUE],
                    new_balance)

\* row is what the SELECT of the balance fetched
_add_transaction_locked(d, row, user_id, amount, description, meta) ==
    IF amount = 0 THEN Raise(d, "InvalidAmountError")
    ELSE LET balance == IF row = <<>> THEN 0 ELSE row[1]
             new_balance == balance + amount
         IN  IF new_balance < 0
             THEN Raise(d, "InsufficientFundsError")
             ELSE Return([d EXCEPT
                            !.wallets = {IF w.user_id = user_id
                                         THEN [w EXCEPT !.balance = new_balance]
                                         ELSE w : w \in @},
                            !.transactions = Append(@, [user_id |-> user_id,
                                amount |-> amount, balance_after |-> new_balance,
                                description |-> description, meta |-> meta]),
                            !.in_transaction = TRUE],
                        new_balance)

\* The methods from their first SELECT on; row is what that SELECT fetched.

try_award_message(d, user_id, ts, row) ==
    IF row # <<>> /\ ts - row[1] < CooldownSeconds
    THEN Return(d, FALSE)
    ELSE LET d1 == [d EXCEPT
                       !.message_cooldowns =
                           {c \in @ : c.user_id # user_id}
                               \cup {[user_id |-> user_id, last_awarded |-> ts]},
                       !.in_transaction = TRUE]
             d2 == _ensure_wallet_locked(d1, user_id)
             r == _add_transaction_locked(d2, SelectBalance(d2, user_id), user_id,
                      TOKEN_MULTIPLIER, "Message activity reward", <<>>)
         IN  IF r.raised # <<>> THEN r ELSE Return(commit(r.db), TRUE)

add_tokens(d, user_id, amount, description, row) ==
    LET r == _add_transaction_locked(d, row, user_id, amount, description, <<>>)
    IN  IF r.raised # <<>> THEN r ELSE Return(commit(r.db), r.value[1])

deduct_tokens(d, user_id, amount, description, row) ==
    LET r == _add_transaction_locked(d, row, user_id, 0 - amount, description, <<>>)
    IN  IF r.raised # <<>> THEN r ELSE Return(commit(r.db), r.value[1])

\* mutant: the recipient is credited before the sender is debited
transfer_tokens_CreditFirst(d, sender_id, recipient_id, amount, row) ==
    LET r == _add_transaction_locked(d, SelectBalance(d, recipient_id), recipient_id,
                 amount, "FIT transfer", <<"from", sender_id>>)
    IN  IF r.raised # <<>> THEN r
        ELSE LET s == _add_transaction_locked(r.db, row, sender_id, 0 - amount,
                          "FIT transfer", <<"to", recipient_id>>)
             IN  IF s.raised # <<>> THEN s
                 ELSE Return(commit(s.db), <<s.value[1], r.value[1]>>)

transfer_tokens(d, sender_id, recipient_id, amount, row) ==
    LET s == _add_transaction_locked(d, row, sender_id, 0 - amount,
                 "FIT transfer", <<"to", recipient_id>>)
    IN  IF s.raised # <<>> THEN s
        ELSE LET r == _add_transaction_locked(s.db, SelectBalance(s.db, recipient_id),
                          recipient_id, amount, "FIT transfer", <<"from", sender_id>>)
             IN  IF r.raised # <<>> THEN r
                 ELSE Return(commit(r.db), <<s.value[1], r.value[1]>>)

create_bet(d, user_id, market_id, amount, row) ==
    LET r == _add_transaction_locked(d, row, user_id, 0 - amount, "Bet on",
                 <<"market_id", market_id>>)
    IN  IF r.raised # <<>> THEN r
        ELSE LET bet_id == Len(r.db.bets) + 1
             IN  Return(commit([r.db EXCEPT !.bets = Append(@, [id |-> bet_id,
                            user_id |-> user_id, market_id |-> market_id,
                            amount |-> amount, status |-> "open"])]),
                        bet_id)

\* what a method raises before it takes the lock, if anything
ArgumentError(c) ==
    IF c.op = "try_award_message" THEN <<>>
    ELSE IF c.amount <= 0 THEN <<"InvalidAmountError">>
    ELSE IF c.op = "transfer_tokens" /\ c.user_id = c.other_id THEN <<"WalletError">>
    ELSE <<>>

\* inside the lock, up to the first SELECT: the store and the row fetched
FirstSelect(d, c) ==
    IF c.op = "try_award_message"
    THEN [db |-> d, row |-> SelectCooldown(d, c.user_id)]
    ELSE LET d1 == _ensure_wallet_locked(d, c.user_id)
             d2 == IF c.op = "transfer_tokens"
                   THEN _ensure_wallet_locked(d1, c.other_id) ELSE d1
         IN  [db |-> d2, row |-> SelectBalance(d2, c.user_id)]

\* the rest of the with-block
AfterSelect(d, c, row) ==
    CASE c.op = "try_award_message" -> try_award_message(d, c.user_id, c.at, row)
      [] c.op = "add_tokens" -> add_tokens(d, c.user_id, c.amount, "d", row)
      [] c.op = "deduct_tokens" -> deduct_tokens(d, c.user_id, c.amount, "d", row)
      [] c.op = "transfer_tokens" ->
             transfer_tokens(d, c.user_id, c.other_id, c.amount, row)
      [] c.op = "create_bet" -> create_bet(d, c.user_id, 1, c.amount, row)

WalletThreads == {1, 2}
WalletUsers == {1, 2}
WalletAmounts == {0, 200}
MessageTimes == {0, 30, 60}

WalletCalls ==
    {[op |-> o, user_id |-> u, other_id |-> 0, amount |-> a, at |-> 0] :
        o \in {"add_tokens", "deduct_tokens", "create_bet"},
        u \in WalletUsers, a \in WalletAmounts}
    \cup {[op |-> "transfer_tokens", user_id |-> u, other_id |-> v, amount |-> a,
           at |-> 0] : u \in WalletUsers, v \in WalletUsers, a \in WalletAmounts}
    \cup {[op |-> "try_award_message", user_id |-> u, other_id |-> 0, amount |-> 0,
           at |-> ts] : u \in WalletUsers, ts \in MessageTimes}

NoCall == [op |-> "", user_id |-> 0, other_id |-> 0, amount |-> 0, at |-> 0]
Idle == [at |-> "idle", call |-> NoCall, row |-> <<>>]

InitWallet ==
    /\ pc = [t \in WalletThreads |-> Idle]
    /\ cog = 0
    /\ db = EmptyWallets
    /\ ret = <<"WalletStore", NoCall, [raised |-> <<>>, value |-> <<>>]>>
    /\ name = <<>> /\ key = <<>> /\ key2 = <<>>
    /\ lines = <<>> /\ scan = <<>> /\ blocks = <<>>

\* mutant: the with-block is entered whoever holds the lock
Enter_NoLock(t, c) ==
    /\ pc[t].at = "idle"
    /\ Len(db.transactions) < MaxTransactions
    /\ IF ArgumentError(c) # <<>>
       THEN /\ ret' = <<c.op, c, [raised |-> ArgumentError(c), value |-> <<>>]>>
            /\ UNCHANGED <<pc, cog, db>>
       ELSE /\ cog' = t
            /\ pc' = [pc EXCEPT ![t] = [at |-> "locked", call |-> c, row |-> <<>>]]
            /\ UNCHANGED <<db, ret>>

\* a thread calls a method: the argument checks, then "with self._lock"
Enter(t, c) ==
    /\ pc[t].at = "idle"
    /\ Len(db.transactions) < MaxTransactions
    /\ IF ArgumentError(c) # <<>>
       THEN /\ ret' = <<c.op, c, [raised |-> ArgumentError(c), value |-> <<>>]>>
            /\ UNCHANGED <<pc, cog, db>>
       ELSE /\ cog = 0
            /\ cog' = t
            /\ pc' = [pc EXCEPT ![t] = [at |-> "locked", call |-> c, row |-> <<>>]]
            /\ UNCHANGED <<db, ret>>

WalletCall ==
    \E t \in WalletThreads, c \in WalletCalls :
        /\ Enter(t, c)
        /\ UNCHANGED <<keyVars, blockVars>>

\* the statements up to the first fetchone()
WalletSelect ==
    \E t \in WalletThreads :
        /\ pc[t].at = "locked"
        /\ \E r \in {FirstSelect(db, pc[t].call)} :
              /\ db' = r.db
              /\ pc' = [pc EXCEPT ![t] = [@ EXCEPT !.at = "selected", !.row = r.row]]
        /\ UNCHANGED <<cog, ret, keyVars, blockVars>>

\* the rest of the with-block; leaving it, by return or raise, releases the lock
WalletFinish ==
    \E t \in WalletThreads :
        /\ pc[t].at = "selected"
        /\ \E r \in {AfterSelect(db, pc[t].call, pc[t].row)} :
              /\ db' = r.db
              /\ ret' = <<pc[t].call.op, pc[t].call, [raised |-> r.raised, value |-> r.value]>>
        /\ pc' = [pc EXCEPT ![t] = Idle]
        /\ cog' = 0
        /\ UNCHANGED <<keyVars, blockVars>>

NextWallet == WalletCall \/ WalletSelect \/ WalletFinish

SpecWallet == InitWallet /\ [][NextWallet]_vars

----------------------------------------------------------------------------
(* ScheduleManager (leo_bot/scheduler.py) under the scheduler loop of the  *)
(* cog.  cog holds the manager's _jobs, the clock and the next interaction *)
(* id; db is the schedules file; scan is the tick in progress (its due     *)
(* jobs and the position in them); blocks lists the ids of the jobs given  *)
(* to _execute_job, in order.  Times are whole ticks of the clock.         *)

\* save(): the file holds the jobs of the list
save(jobs) == jobs

add_job(jobs, job) == Append(jobs, job)

remove_job(jobs, job_id) ==
    LET Other(j) == j.id # job_id
        kept == SelectSeq(jobs, Other)
    IN  [jobs |-> kept, removed |-> Len(kept) < Len(jobs)]

\* mutant: the due jobs are returned and stay in the list
due_jobs_KeepDue(jobs, now) ==
    LET Due(j) == j.run_at <= now
    IN  [due |-> SelectSeq(jobs, Due), jobs |-> jobs, saved |-> FALSE]

\* returns the due jobs; jobs is self._jobs afterwards, saved when it changed
due_jobs(jobs, now) ==
    LET Due(j) == j.run_at <= now
        NotDue(j) == ~(j.run_at <= now)
        due == SelectSeq(jobs, Due)
        remaining == SelectSeq(jobs, NotDue)
    IN  IF due # <<>>
        THEN [due |-> due, jobs |-> remaining, saved |-> TRUE]
        ELSE [due |-> due, jobs |-> jobs, saved |-> FALSE]

InitJobs ==
    /\ pc = "sleeping"
    /\ cog = [_jobs |-> <<>>, now |-> 0, next |-> 1]
    /\ db = <<>>
    /\ scan = [due |-> <<>>, i |-> 1]
    /\ blocks = <<>>
    /\ ret = <<"load", <<>>, NULL>>
    /\ name = <<>> /\ key = <<>> /\ key2 = <<>> /\ lines = <<>>

\* scheduler_loop, up to the first await: a later reading of the clock
SchedulerTick ==
    /\ pc = "sleeping"
    /\ \E now \in (cog.now + 1)..MaxJobClock :
          \E r \in {due_jobs(cog._jobs, now)} :
              /\ cog' = [cog EXCEPT !._jobs = r.jobs, !.now = now]
              /\ db' = IF r.saved THEN save(r.jobs) ELSE db
              /\ scan' = [due |-> r.due, i |-> 1]
              /\ pc' = IF r.due = <<>> THEN "sleeping" ELSE "executing"
              /\ ret' = <<"due_jobs", <<now>>, r.due>>
    /\ UNCHANGED <<blocks, keyVars, lines>>

\* await self._execute_job(job), for the next job of the tick
ExecuteJob ==
    /\ pc = "executing"
    /\ blocks' = Append(blocks, scan.due[scan.i].id)
    /\ scan' = [scan EXCEPT !.i = @ + 1]
    /\ pc' = IF scan.i = Len(scan.due) THEN "sleeping" ELSE "executing"
    /\ UNCHANGED <<cog, db, ret, keyVars, lines>>

\* the schedule command adds a job, also between the jobs of a tick
AddJob ==
    /\ cog.next <= MaxJobs
    /\ \E run_at \in 1..MaxJobClock :
          \E job \in {[id |-> cog.next, run_at |-> run_at]} :
              /\ cog' = [cog EXCEPT !._jobs = add_job(@, job), !.next = @ + 1]
              /\ db' = save(add_job(cog._jobs, job))
              /\ ret' = <<"add_job", <<job>>, NULL>>
    /\ UNCHANGED <<pc, scan, blocks, keyVars, lines>>

\* the schedule_remove command, with the id of a queued job or any other
RemoveJob ==
    /\ \E job_id \in 1..MaxJobs :
          \E r \in {remove_job(cog._jobs, job_id)} :
              /\ cog' = [cog EXCEPT !._jobs = r.jobs]
              /\ db' = IF r.removed THEN save(r.jobs) ELSE db
              /\ ret' = <<"remove_job", <<job_id>>, r.removed>>
    /\ UNCHANGED <<pc, scan, blocks, keyVars, lines>>

NextJobs == SchedulerTick \/ ExecuteJob \/ AddJob \/ RemoveJob

SpecJobs == InitJobs /\ [][NextJobs]_vars

----------------------------------------------------------------------------
(* C1: canonical_key is accent-insensitive: replacing every letter of the  *)
(* fixed accented set in the input by its base letter leaves the key       *)
(* unchanged; the key of "Pérez" is the key of "Perez", which is "perez".  *)
Unaccent(s) == [i \in 1..Len(s) |-> TranslitChar(s[i])]

C1_AccentInsensitive ==
    pc # "key_start" =>
        /\ key = canonical_key(Unaccent(name))
        /\ (name = PerezAccent => key = <<"p", "e", "r", "e", "z">>)

(* C2: entity identity is stable: in every step no two Entity rows have    *)
(* the same canonical key, an Entity row keeps its id and key, a call of   *)
(* upsert_entity_with_alias returns the id of the one Entity that has the  *)
(* key of the name, the Entity that had it before when there was one, and  *)
(* every outcome a refresh writes is linked to the Entity that has the key *)
(* of its selection.                                                       *)
KeyOwners(d, k) == {e.id : e \in {x \in Rows(d.entities) : x.canonical_key = k}}

C2_EntityIdentityStable ==
    [][/\ \A e, f \in Rows(db'.entities) : e.canonical_key = f.canonical_key => e.id = f.id
       /\ \A e \in Rows(db.entities) : KeyOwners(db', e.canonical_key) = {e.id}
       /\ ret'[1] = "upsert_entity_with_alias" =>
             LET k == canonical_key(ret'[2][1])
             IN  /\ KeyOwners(db', k) = {ret'[3]}
                 /\ KeyOwners(db, k) \subseteq {ret'[3]}
       /\ \A o \in Rows(db'.outcomes) \ Rows(db.outcomes) :
             KeyOwners(db', canonical_key(o.selection_name)) = {LinkedEntity(db', o.id)}]_vars

\* the entity created as "Verstappen, Max" in snapshot 1 is resolved as
\* "Verstappen Max" in snapshot 2
C2_Witness ==
    /\ ret[1] = "upsert_entity_with_alias"
    /\ ret[2] = <<VerstappenMaxNoComma, 2>>
    /\ \E e \in Rows(db.entities) : e.id = ret[3] /\ e.canonical_name = VerstappenMax
    /\ \E a \in Rows(db.entity_aliases) :
          a.entity_id = ret[3] /\ a.first_seen_snapshot_id = 1 /\ a.last_seen_snapshot_id = 2

(* C3: the spelling an Entity has just been resolved through appears in    *)
(* entity_aliases of that Entity, so that after two spellings of one key   *)
(* both are listed.                                                        *)
C3_BothSpellingsListed ==
    ret[1] = "upsert_entity_with_alias" =>
        \E a \in entity_aliases(db, ret[3]) : a[1] = ret[2][1]

(* C4: a call of upsert_market, direct or by a refresh, leaves exactly one *)
(* Market row of that name, returns its id, the id the name had before     *)
(* when it had one, and leaves last_seen_snapshot_id equal to the snapshot *)
(* id of that call.                                                        *)
Named(d, n) == {r \in Rows(d.markets) : r.name = n}

C4_OneMarketRow ==
    [][/\ ret'[1] = "upsert_market" =>
             LET n == ret'[2][1]
                 sn == ret'[2][3]
             IN  /\ Cardinality(Named(db', n)) = 1
                 /\ \A r \in Named(db', n) : r.id = ret'[3] /\ r.last_seen_snapshot_id = sn
                 /\ \A r \in Named(db, n) : r.id = ret'[3]
       /\ ret'[1] = "refresh" =>
             LET bs == Extracted[ret'[2][1]].market_blocks
             IN  \A i \in 1..Len(bs) :
                     /\ Cardinality(Named(db', bs[i][1])) = 1
                     /\ \A r \in Named(db', bs[i][1]) : r.last_seen_snapshot_id = ret'[3]
                     /\ \A r \in Named(db, bs[i][1]) :
                           \E q \in Named(db', bs[i][1]) : q.id = r.id]_vars

\* the third call for the one name, with the older of two snapshots
C4_Witness ==
    /\ ret[1] = "upsert_market"
    /\ ret[2][1] = RaceWinner /\ ret[2][3] = 1
    /\ Len(db.snapshots) = 2
    /\ db.seq.markets = 3
    /\ Len(db.markets) = 1
    /\ db.markets[1].id = ret[3] /\ db.markets[1].last_seen_snapshot_id = 1

(* C5: list_outcomes_latest(m) returns exactly the Outcome rows of market  *)
(* m whose snapshot id is the greatest among the outcomes of m, ordered by *)
(* outcome id; for a market without outcomes it returns the empty list.    *)
C5_LatestPerMarket ==
    ret[1] = "list_outcomes_latest" =>
        LET m == ret[2][1]
            res == ret[3]
            mine == {r \in Rows(db.outcomes) : r.market_id = m}
            latest == {r \in mine : \A q \in mine : q.snapshot_id <= r.snapshot_id}
        IN  /\ {res[i].id : i \in 1..Len(res)} = {r.id : r \in latest}
            /\ Len(res) = Cardinality(latest)
            /\ \A i, j \in 1..Len(res) : i < j => res[i].id < res[j].id
            /\ \A i \in 1..Len(res) : \E r \in latest :
                  /\ r.id = res[i].id
                  /\ r.market_id = res[i].market_id
                  /\ r.selection_name = res[i].selection_name
                  /\ r.odds_decimal = res[i].odds_decimal
            /\ mine = {} => res = <<>>

\* two refreshes wrote outcomes for the market: the second one's are returned
C5_Witness ==
    /\ ret[1] = "list_outcomes_latest"
    /\ Len(db.snapshots) = 2
    /\ \E r, q \in Rows(db.outcomes) :
          /\ r.market_id = ret[2][1] /\ q.market_id = ret[2][1]
          /\ r.snapshot_id = 1 /\ q.snapshot_id = 2
    /\ ret[3] # <<>>
    /\ \A i \in 1..Len(ret[3]) : RowById(db.outcomes, ret[3][i].id).snapshot_id = 2

(* C6: one refresh of the end-to-end scenario's lines on an empty store    *)
(* yields exactly two Section rows, titled "Formula 1 2024" and "Race      *)
(* Winner", in that order.                                                 *)
ScenarioRefreshed == ret = <<"refresh", <<1>>, 1>> /\ Len(db.snapshots) = 1

SectionList == [i \in 1..Len(db.sections) |-> db.sections[i].title]

C6_TwoSections == ScenarioRefreshed => SectionList = <<Formula12024, RaceWinner>>

C6_Witness == ScenarioRefreshed /\ Len(db.sections) = 2

\* C6 as stated: exactly one Section row, titled "Formula 1 2024"
C6_OneSection == ScenarioRefreshed => SectionList = <<Formula12024>>

(* C7: one refresh of the end-to-end scenario's lines on an empty store    *)
(* yields exactly one Market row, named "Race Winner", with exactly two    *)
(* Outcome rows, in input order, with odds 1.50 and 8.00.                  *)
C7_OneMarketTwoOutcomes ==
    ScenarioRefreshed =>
        /\ Len(db.markets) = 1
        /\ db.markets[1].name = RaceWinner
        /\ Len(db.outcomes) = 2
        /\ \A i \in 1..Len(db.outcomes) : db.outcomes[i].market_id = db.markets[1].id
        /\ db.outcomes[1].id < db.outcomes[2].id
        /\ [i \in 1..2 |-> <<db.outcomes[i].selection_name, db.outcomes[i].odds_decimal>>]
              = << <<VerstappenMax, Decimal(150, 2)>>, <<PerezSergio, Decimal(800, 2)>> >>
        /\ Len(list_outcomes(db, db.markets[1].id)) = 2

C7_Witness == ScenarioRefreshed /\ Len(db.outcomes) = 2 /\ Len(db.markets) = 1

(* C10: canonical_key is idempotent, and its result holds only characters  *)
(* of [a-z0-9 ], with no leading, trailing or doubled space.               *)
C10_Idempotent ==
    /\ pc = "rekeyed" => key2 = key
    /\ pc # "key_start" =>
          /\ \A i \in 1..Len(key) : key[i] \in KeyChars
          /\ key # <<>> => key[1] # " " /\ key[Len(key)] # " "
          /\ ~Contains(key, <<" ", " ">>)

\* a name whose punctuation sat between two spaces, keyed twice
C10_Witness ==
    /\ pc = "rekeyed"
    /\ Contains(name, <<" ", "-", " ">>)
    /\ Contains(key, <<" ">>)

(* C8: an input made of one candidate-title line followed by distinct      *)
(* (selection, odds) line-pairs, at least one, whose selections are        *)
(* neither candidate titles nor filler lines, possibly interleaved with    *)
(* noise lines that are neither candidate titles nor followed by an odds   *)
(* token, yields exactly one block: that title, with exactly those pairs   *)
(* in input order. The ways to read the lines after the title as pairs     *)
(* (two lines) and noise (one line) are the tilings of their count.        *)
RECURSIVE Tilings(_)
Tilings(n) ==
    IF n = 0 THEN {<<>>}
    ELSE {<<1>> \o t : t \in Tilings(n - 1)}
            \cup (IF n >= 2 THEN {<<2>> \o t : t \in Tilings(n - 2)} ELSE {})

RECURSIVE TilePairs(_, _, _)
TilePairs(ls, t, pos) ==
    IF t = <<>> THEN <<>>
    ELSE IF Head(t) = 2
         THEN <<<<ls[pos], ls[pos + 1]>>>> \o TilePairs(ls, Tail(t), pos + 2)
         ELSE TilePairs(ls, Tail(t), pos + 1)

RECURSIVE TileNoise(_, _)
TileNoise(t, pos) ==
    IF t = <<>> THEN {}
    ELSE IF Head(t) = 2
         THEN TileNoise(Tail(t), pos + 2)
         ELSE {pos} \cup TileNoise(Tail(t), pos + 1)

IsFiller(ln) == StartsWith(lower(ln), BekijkMeerPrefix)

NoRepeat(seq) == \A i, j \in 1..Len(seq) : seq[i] = seq[j] => i = j

TitleThenPairs(ls, t) ==
    LET pairs == TilePairs(ls, t, 2)
    IN  /\ looks_like_market_title(ls[1])
        /\ pairs # <<>>
        /\ NoRepeat(pairs)
        /\ \A i \in 1..Len(pairs) :
              /\ ODDS_DUTCH_RE_match(pairs[i][2])
              /\ ~looks_like_market_title(pairs[i][1])
              /\ ~IsFiller(pairs[i][1])
        /\ \A q \in TileNoise(t, 2) :
              /\ ~looks_like_market_title(ls[q])
              /\ ~(q + 1 <= Len(ls) /\ ODDS_DUTCH_RE_match(ls[q + 1]))

C8_OneBlockInOrder ==
    (pc = "returned" /\ lines # <<>>) =>
        \A t \in Tilings(Len(lines) - 1) :
            TitleThenPairs(lines, t) =>
                blocks = << <<lines[1], TilePairs(lines, t, 2)>> >>

\* a title, a pair, a noise line, a second pair: one block of two entries
C8_Witness ==
    /\ pc = "returned"
    /\ lines # <<>>
    /\ \E t \in Tilings(Len(lines) - 1) :
          /\ TitleThenPairs(lines, t)
          /\ Len(TilePairs(lines, t, 2)) = 2
          /\ TileNoise(t, 2) # {}
          /\ \E q \in TileNoise(t, 2) : q < Len(lines) - 1
    /\ Len(blocks) = 1 /\ Len(blocks[1][2]) = 2

(* C9: within one returned block no (selection, odds) pair occurs twice:   *)
(* whenever the loop flushes a block, its entries are the pairs collected  *)
(* under the open title, each once, ordered by first occurrence.           *)
FirstIndex(seq, x) == CHOOSE k \in 1..Len(seq) : seq[k] = x /\ \A m \in 1..(k - 1) : seq[m] # x

C9_DedupFirstOccurrence ==
    [][Len(scan'.blocks) > Len(scan.blocks) =>
          LET b == scan'.blocks[Len(scan'.blocks)]
              e == b[2]
          IN  /\ b[1] = scan.title[1]
              /\ NoRepeat(e)
              /\ {e[i] : i \in 1..Len(e)} = {scan.items[i] : i \in 1..Len(scan.items)}
              /\ \A i, j \in 1..Len(e) :
                    i < j => FirstIndex(scan.items, e[i]) < FirstIndex(scan.items, e[j])
              /\ \A n \in 1..Len(scan'.blocks) : NoRepeat(scan'.blocks[n][2])]_vars

\* the pair (Max, 1,50) read twice under one title, with another pair between
C9_Witness ==
    /\ pc = "returned"
    /\ lines = <<RaceWinner, MaxLine, Odds150, LandoLine, Odds150, MaxLine, Odds150>>
    /\ blocks = << <<RaceWinner, << <<MaxLine, Odds150>>, <<LandoLine, Odds150>> >> >> >>

----------------------------------------------------------------------------
(* C11: for every text that matches the localized odds pattern,            *)
(* parse_dutch_decimal returns the number read by deleting the dots and    *)
(* taking the comma as the decimal point; the pattern leaves exactly two   *)
(* decimals, so the number is the digits of the text counted in            *)
(* hundredths. "12,50" gives 12.50 and "1.234,56" gives 1234.56.           *)

Str1234comma56 == <<"1", ".", "2", "3", "4", ",", "5", "6">>

Hundredths(s) == DecimalValue(SelectSeq(s, LAMBDA c : c \in Digits))

EqualsHundredths(r, h) ==
    r # <<>> /\ r[1].k <= 2 /\ r[1].m * 10 ^ (2 - r[1].k) = h

C11_ParsesMatchingOdds ==
    (pc = "parsed" /\ key = TRUE) =>
        /\ EqualsHundredths(ret, Hundredths(name))
        /\ name = Str1250 => EqualsHundredths(ret, 1250)
        /\ name = Str1234comma56 => EqualsHundredths(ret, 123456)

C11_Witness ==
    /\ pc = "parsed" /\ key = TRUE
    /\ name = Str1234comma56
    /\ ret = <<[m |-> 123456, k |-> 2]>>

(* C12: parsing a text that does not match the localized odds pattern is   *)
(* signalled as a failure, never turned into a number.                     *)
C12_RejectsOtherStrings ==
    (pc = "parsed" /\ key = FALSE) => ret = <<>>

(* C13: implied probability is derived from the odds. In every reachable   *)
(* store every outcome row's implied_prob is 0 when its odds_decimal is 0  *)
(* and the reciprocal of its odds_decimal otherwise (p * d = 1), so odds   *)
(* of 2.0 carry 0.5. A probability <<a, b>> is the fraction a / b.         *)
IsReciprocal(p, d) ==
    /\ p[2] # 0
    /\ IF d.m = 0 THEN p[1] = 0 ELSE p[1] * d.m = p[2] * 10 ^ d.k

C13_ImpliedProbDerived ==
    db # <<>> =>
        \A o \in Rows(db.outcomes) :
            /\ IsReciprocal(o.implied_prob, o.odds_decimal)
            /\ o.odds_decimal = [m |-> 2, k |-> 0] => 2 * o.implied_prob[1] = o.implied_prob[2]

\* a row a refresh wrote at odds 1,50 and a row inserted at odds 0
C13_Witness ==
    /\ ret[1] = "insert_outcome"
    /\ \E o, q \in Rows(db.outcomes) :
          /\ o.odds_decimal = [m |-> 0, k |-> 0] /\ o.implied_prob = <<0, 1>>
          /\ q.odds_decimal = [m |-> 15, k |-> 1] /\ q.implied_prob = <<10, 15>>

(* C15: outcome rows are append-only. Every step leaves the outcome rows   *)
(* it found in place and unchanged, in all their fields; a refresh stamps  *)
(* every row it adds with its new snapshot id, and adds the entries of     *)
(* every market block of the page, in order, whether or not the market     *)
(* had outcomes already.                                                   *)
RefreshStep == ret'[1] = "refresh" /\ Len(db'.snapshots) = Len(db.snapshots) + 1

Added(old, new) == SubSeq(new, Len(old) + 1, Len(new))

C15_OutcomesAppendOnly ==
    [][/\ Len(db'.outcomes) >= Len(db.outcomes)
       /\ SubSeq(db'.outcomes, 1, Len(db.outcomes)) = db.outcomes
       /\ RefreshStep =>
              LET added == Added(db.outcomes, db'.outcomes)
                  bs == Extracted[ret'[2][1]].market_blocks
              IN  /\ \A i \in 1..Len(added) : added[i].snapshot_id = ret'[3]
                  /\ \A b \in 1..Len(bs) :
                         LET rows == SelectSeq(added,
                                 LAMBDA o : RowById(db'.markets, o.market_id).name = bs[b][1])
                         IN  [i \in 1..Len(rows) |-> rows[i].selection_name]
                                 = [i \in 1..Len(bs[b][2]) |-> bs[b][2][i][1]]]_vars

\* the scenario page refreshed twice: "Verstappen, Max" at 1,50 is on record
\* for snapshot 1 and for snapshot 2
C15_Witness ==
    /\ ret = <<"refresh", <<1>>, 2>>
    /\ \E r, q \in Rows(db.outcomes) :
          /\ r.market_id = q.market_id
          /\ r.selection_name = VerstappenMax /\ q.selection_name = VerstappenMax
          /\ r.odds_decimal = q.odds_decimal
          /\ r.snapshot_id = 1 /\ q.snapshot_id = 2

(* C14: every upsert is idempotent. A second call of upsert_section,       *)
(* upsert_event, upsert_market or upsert_entity_with_alias with the        *)
(* arguments of the call just made returns the same id and leaves every    *)
(* row of every table as it was; only the AUTOINCREMENT counter of the     *)
(* sections, events or markets table moves on.                             *)
UpsertOps == {"upsert_section", "upsert_event", "upsert_market", "upsert_entity_with_alias"}

SameCallAgain == ret[1] \in UpsertOps /\ ret'[1] = ret[1] /\ ret'[2] = ret[2]

\* the tables of the schema, without the counters SQLite keeps for them
Tables(d) == [t \in DOMAIN d \ {"seq"} |-> d[t]]

C14_Idempotent ==
    [][SameCallAgain =>
          /\ ret'[3] = ret[3]
          /\ Tables(db') = Tables(db)
          /\ \A t \in DOMAIN db.seq : db'.seq[t] >= db.seq[t]]_vars

\* upsert_section("Formula 1 2024") for the second time
C14_Witness ==
    /\ ret = <<"upsert_section", <<Formula12024>>, 1>>
    /\ db.seq.sections = 2
    /\ db.sections = <<[id |-> 1, title |-> Formula12024]>>

(* C14 as stated: the second call returns the same id and leaves the whole *)
(* store exactly as it was after the first.                                *)
C14_StoreUnchanged ==
    [][SameCallAgain => ret'[3] = ret[3] /\ db' = db]_vars

(* C16: for every EntityAlias row, at every step (also a call of           *)
(* upsert_entity_with_alias that passes a snapshot id older than the one   *)
(* on record) first_seen_snapshot_id stays what it was,                    *)
(* last_seen_snapshot_id does not decrease, and first_seen_snapshot_id <=  *)
(* last_seen_snapshot_id.                                                  *)
C16_AliasSeenMonotone ==
    [][\A a \in Rows(db.entity_aliases) :
           LET b == RowById(db'.entity_aliases, a.id)
           IN  /\ b.first_seen_snapshot_id = a.first_seen_snapshot_id
               /\ b.last_seen_snapshot_id >= a.last_seen_snapshot_id
               /\ b.first_seen_snapshot_id <= b.last_seen_snapshot_id]_vars

(* C17: parent references are upgrade-only. upsert_event with a null       *)
(* section and upsert_market with a null event leave the reference stored  *)
(* on the row as it is; a call with a non-null reference stores that       *)
(* reference, whatever the row held; no other row is touched.              *)
Upgraded(old, new) == IF new = NULL THEN old ELSE new

C17_UpgradeOnly ==
    [][/\ ret'[1] = "upsert_event" =>
              \A r \in Rows(db.events) :
                  LET q == RowById(db'.events, r.id)
                  IN  IF r.name = ret'[2][1]
                      THEN q.section_id = Upgraded(r.section_id, ret'[2][2])
                      ELSE q = r
       /\ ret'[1] = "upsert_market" =>
              \A r \in Rows(db.markets) :
                  LET q == RowById(db'.markets, r.id)
                  IN  IF r.name = ret'[2][1]
                      THEN q.event_id = Upgraded(r.event_id, ret'[2][2])
                      ELSE q = r]_vars

\* a market seen again without an event keeps the event it had, and that
\* event the section it had
C17_Witness ==
    /\ ret[1] = "upsert_market" /\ ret[2][2] = NULL
    /\ db.seq.markets >= 2
    /\ RowById(db.markets, ret[3]).event_id # NULL
    /\ \E e \in Rows(db.events) : e.section_id # NULL


(* C18: every block _extract_market_blocks returns for a page has a title  *)
(* and at least one entry, so a refresh creates or re-stamps a Market row  *)
(* only together with outcomes of that market in its snapshot: a title the *)
(* page shows without entries leaves the markets table alone.              *)
C18_NoMarketWithoutEntries ==
    [][RefreshStep =>
          LET bs == Extracted[ret'[2][1]].market_blocks
          IN  /\ \A i \in 1..Len(bs) : bs[i][1] # <<>> /\ bs[i][2] # <<>>
              /\ \A m \in Rows(db'.markets) \ Rows(db.markets) :
                     /\ \E i \in 1..Len(bs) : bs[i][1] = m.name
                     /\ \E o \in Rows(db'.outcomes) :
                            o.market_id = m.id /\ o.snapshot_id = ret'[3]]_vars

\* the scenario page, then the page with "Race Winner" as a bare title: the
\* market keeps the snapshot of the first refresh
C18_Witness ==
    /\ ret = <<"refresh", <<3>>, 2>>
    /\ \E m \in Rows(db.markets) : m.name = RaceWinner /\ m.last_seen_snapshot_id = 1
    /\ \E m \in Rows(db.markets) : m.name = SprintTitle /\ m.last_seen_snapshot_id = 2

(* C19: a refresh whose fetch fails (the static fetch raises in 'requests' *)
(* mode, the rendered fetch raises in 'playwright' mode, or both raise in  *)
(* 'auto' mode) raises to its caller and leaves the store as it was: no    *)
(* Snapshot row, no other row. Any other refresh returns a snapshot id.    *)
FetchFails(mode, rendered, static) ==
    \/ mode = "requests" /\ static = 0
    \/ mode = "playwright" /\ rendered = 0
    \/ mode = "auto" /\ rendered = 0 /\ static = 0

C19_FailedFetchWritesNothing ==
    [][ret'[1] = "refresh" =>
          IF FetchFails(ret'[2][1], ret'[2][2], ret'[2][3])
          THEN ret'[3].raised /\ db' = db
          ELSE /\ ~ret'[3].raised
               /\ ret'[3].id = Len(db.snapshots) + 1
               /\ Len(db'.snapshots) = Len(db.snapshots) + 1]_vars

\* both fetches fail in 'auto' mode after one refresh that worked
C19_Witness ==
    /\ ret[1] = "refresh" /\ ret[2] = <<"auto", 0, 0>>
    /\ ret[3].raised
    /\ Len(db.snapshots) = 1 /\ db.outcomes # <<>>

(* C20: fetch policy of refresh. In 'auto' mode the rendered fetch is      *)
(* called first and, when it fails, the static fetch is called and its     *)
(* page ingested; in 'playwright' mode a failure of the rendered fetch is  *)
(* raised and the static fetch is not called; in 'requests' mode only the  *)
(* static fetch is called.                                                 *)
Ingested(d, page, snap_id) ==
    /\ d.snapshots[Len(d.snapshots)] = [id |-> snap_id, url |-> TOTO_F1_OUTRIGHTS_URL, html |-> page]
    /\ \A i \in 1..Len(Extracted[page].market_blocks) :
           \E m \in Rows(d.markets) :
               /\ m.name = Extracted[page].market_blocks[i][1]
               /\ m.last_seen_snapshot_id = snap_id

C20_FetchPolicy ==
    ret[1] = "refresh" =>
        LET mode == ret[2][1]
            rendered == ret[2][2]
            static == ret[2][3]
            out == ret[3]
        IN  /\ mode = "auto" /\ rendered # 0 =>
                   /\ out.calls = <<"_fetch_rendered_html">>
                   /\ ~out.raised /\ Ingested(db, rendered, out.id)
            /\ mode = "auto" /\ rendered = 0 =>
                   /\ out.calls = <<"_fetch_rendered_html", "_fetch_html">>
                   /\ static # 0 => ~out.raised /\ Ingested(db, static, out.id)
            /\ mode = "playwright" =>
                   /\ out.calls = <<"_fetch_rendered_html">>
                   /\ rendered = 0 => out.raised
                   /\ rendered # 0 => ~out.raised /\ Ingested(db, rendered, out.id)
            /\ mode = "requests" =>
                   /\ out.calls = <<"_fetch_html">>
                   /\ static # 0 => ~out.raised /\ Ingested(db, static, out.id)

\* 'auto': the rendered fetch failed and the static fetch's page is stored
C20_Witness ==
    /\ ret[1] = "refresh" /\ ret[2] = <<"auto", 0, 2>>
    /\ ret[3] = [raised |-> FALSE, id |-> 1, calls |-> <<"_fetch_rendered_html", "_fetch_html">>]
    /\ db.snapshots[1].html = 2
    /\ Len(db.outcomes) = 1

(* C21: each successful refresh creates exactly one Snapshot row, also     *)
(* when the page fetched is that of an earlier snapshot; its id is greater *)
(* than every earlier snapshot id and is the id returned. No step changes  *)
(* or removes a Snapshot row.                                              *)
C21_OneSnapshotPerRefresh ==
    [][/\ Len(db'.snapshots) >= Len(db.snapshots)
       /\ SubSeq(db'.snapshots, 1, Len(db.snapshots)) = db.snapshots
       /\ (ret'[1] = "refresh" /\ ~ret'[3].raised) =>
              /\ Len(db'.snapshots) = Len(db.snapshots) + 1
              /\ db'.snapshots[Len(db'.snapshots)].id = ret'[3].id
              /\ \A r \in Rows(db.snapshots) : r.id < ret'[3].id]_vars

\* the scenario page fetched twice: two snapshots of the same content
C21_Witness ==
    /\ ret[1] = "refresh" /\ ~ret[3].raised /\ ret[3].id = 2
    /\ Len(db.snapshots) = 2
    /\ db.snapshots[1].html = 1 /\ db.snapshots[2].html = 1
    /\ db.snapshots[1].id = 1 /\ db.snapshots[2].id = 2

(* C22: every Outcome has at most one OutcomeEntity link, and a link once  *)
(* written stays as it is; every outcome a refresh inserts leaves the      *)
(* refresh linked to exactly one Entity, whose canonical key is            *)
(* canonical_key of the outcome's selection text.                          *)
LinksOf(d, outcome_id) == {l \in d.outcome_entities : l.outcome_id = outcome_id}

C22_OneLinkPerOutcome ==
    [][/\ \A o \in Rows(db'.outcomes) : Cardinality(LinksOf(db', o.id)) <= 1
       /\ db.outcome_entities \subseteq db'.outcome_entities
       /\ RefreshStep =>
              LET added == Added(db.outcomes, db'.outcomes)
              IN  \A i \in 1..Len(added) :
                      /\ Cardinality(LinksOf(db', added[i].id)) = 1
                      /\ \A l \in LinksOf(db', added[i].id) :
                             \E e \in Rows(db'.entities) :
                                 /\ e.id = l.entity_id
                                 /\ e.canonical_key = canonical_key(added[i].selection_name)]_vars

\* an outcome a refresh linked to its entity is linked again, to another
\* entity, and keeps the link it had
C22_Witness ==
    /\ ret[1] = "link_outcome_entity"
    /\ \E o \in Rows(db.outcomes), e \in Rows(db.entities) :
          /\ o.id = ret[2][1]
          /\ e.id = LinkedEntity(db, o.id) /\ e.id # ret[2][2]
          /\ e.canonical_key = canonical_key(o.selection_name)

(* C23: refresh cycles are never in progress at the same time on the       *)
(* bot's client: of the hourly sync and the /bet commands at most one has  *)
(* a worker thread inside TotoF1Client.refresh.                            *)
C23_OneRefreshAtATime ==
    Cardinality(cog.in_refresh) <= 1

(* C24: crash recovery. When a refresh has died after some of its writes,  *)
(* a complete refresh of the same page leaves no two Section, Event,       *)
(* Market, Entity or EntityAlias rows with one identity key, and           *)
(* list_outcomes_latest of every market of the page returns the entries of *)
(* the page, each once, all of them rows the complete refresh wrote.       *)
NoDuplicates(d) ==
    /\ \A r, q \in Rows(d.sections) : r.title = q.title => r = q
    /\ \A r, q \in Rows(d.events) : r.name = q.name => r = q
    /\ \A r, q \in Rows(d.markets) : r.name = q.name => r = q
    /\ \A r, q \in Rows(d.entities) : r.canonical_key = q.canonical_key => r = q
    /\ \A r, q \in Rows(d.entity_aliases) :
           r.entity_id = q.entity_id /\ r.alias_key = q.alias_key => r = q

CrashThenRefresh ==
    /\ ret[1] = "refresh_crash" /\ ret'[1] = "refresh"
    /\ ret'[2][1] = ret[2][1]

C24_CrashRecovery ==
    [][CrashThenRefresh =>
          LET bs == Extracted[ret'[2][1]].market_blocks
              written == {o.id : o \in Rows(db'.outcomes) \ Rows(db.outcomes)}
          IN  /\ NoDuplicates(db')
              /\ \A b \in 1..Len(bs) :
                     \E m \in Rows(db'.markets) :
                         /\ m.name = bs[b][1]
                         /\ LET latest == list_outcomes_latest(db', m.id)
                            IN  /\ Len(latest) = Len(bs[b][2])
                                /\ \A i \in 1..Len(latest) :
                                       /\ latest[i].id \in written
                                       /\ latest[i].selection_name = bs[b][2][i][1]
                                       /\ <<latest[i].odds_decimal>>
                                              = parse_dutch_decimal(bs[b][2][i][2])
                                       /\ latest[i].entity_id # NULL]_vars

\* the scenario page: a refresh that died after its first outcome, then a
\* complete one
C24_Witness ==
    /\ ret = <<"refresh", <<1>>, 2>>
    /\ db.snapshots[1].html = 1
    /\ Cardinality({o \in Rows(db.outcomes) : o.snapshot_id = 1}) = 1
    /\ Cardinality({o \in Rows(db.outcomes) : o.snapshot_id = 2}) = 2

(* C25: _extract_sections captures nothing before the first line equal,    *)
(* case-insensitively, to "alles"; while capturing, a line with " - " ends *)
(* capture when 3 tabs are captured and is skipped otherwise, a line       *)
(* matching the keyword pattern is appended unless present, and any other  *)
(* line ends capture once 3 tabs are captured.                             *)
RECURSIVE CaptureRules(_, _, _, _)
CaptureRules(ls, n, tabs, capture) ==
    IF n > Len(ls) THEN tabs
    ELSE LET low == lower(ls[n])
             skip == CaptureRules(ls, n + 1, tabs, capture)
         IN  IF ~capture THEN CaptureRules(ls, n + 1, tabs, low = AllesWord)
             ELSE IF Contains(ls[n], SpacedHyphen)
                  THEN IF Len(tabs) >= MinTabs THEN tabs ELSE skip
             ELSE IF IsTabLine(low)
                  THEN IF InSeq(ls[n], tabs) THEN skip
                       ELSE CaptureRules(ls, n + 1, Append(tabs, ls[n]), capture)
             ELSE IF Len(tabs) >= MinTabs THEN tabs ELSE skip

C25_CaptureRules ==
    pc = "sections_done" => ret = CaptureRules(lines, 1, <<>>, FALSE)

\* what the claim concludes about the returned list
SectionsWellFormed ==
    pc = "sections_done" =>
        /\ \A i, j \in 1..Len(ret) : ret[i] = ret[j] => i = j
        /\ \A i \in 1..Len(ret) :
               IsTabLine(lower(ret[i])) /\ ~Contains(ret[i], SpacedHyphen)
        /\ \E f \in [1..Len(ret) -> 1..Len(lines)] :
               /\ \A i \in 1..Len(ret) : lines[f[i]] = ret[i]
               /\ \A i, j \in 1..Len(ret) : i < j => f[i] < f[j]
               /\ \A i \in 1..Len(ret) :
                      \E a \in 1..(f[i] - 1) : lower(lines[a]) = AllesWord

(* C26: a market title with a race, qualifying or sprint keyword goes with *)
(* the first section, in tab order, whose title has a race, qualification  *)
(* or sprint keyword; failing that, every market title goes with the first *)
(* section titled Formula/Formule 1 <year>; otherwise with no section, and *)
(* the refresh stores the market with a null event.                        *)
HasWord(s, words) == \E k \in words : Contains(lower(s), k)

ClaimedSection(title, sections) ==
    LET race == {n \in 1..Len(sections) : HasWord(sections[n], SectionRaceKeywords)}
        season == {n \in 1..Len(sections) : IsSeasonTitle(lower(sections[n]))}
    IN  IF HasWord(title, MarketRaceKeywords) /\ race # {} THEN <<sections[Min(race)]>>
        ELSE IF season # {} THEN <<sections[Min(season)]>>
        ELSE <<>>

EventNameOf(d, m) ==
    IF m.event_id = NULL THEN <<>>
    ELSE <<(CHOOSE e \in Rows(d.events) : e.id = m.event_id).name>>

C26_SectionForMarket ==
    ret[1] = "refresh" =>
        LET bs == _extract_market_blocks(lines)
        IN  \A b \in 1..Len(bs) :
                \E m \in Rows(db.markets) :
                    /\ m.name = bs[b][1]
                    /\ EventNameOf(db, m) = ClaimedSection(bs[b][1], _extract_sections(lines))

\* the season tab comes first and the race market goes with the sprint tab
C26_Witness ==
    /\ ret[1] = "refresh"
    /\ Len(db.sections) = 3 /\ IsSeasonTitle(lower(db.sections[1].title))
    /\ \E m \in Rows(db.markets) :
           m.name = RaceWinner /\ EventNameOf(db, m) = <<SprintTitle>>

(* C27: find_entity(x) returns the entity whose canonical key, or one of   *)
(* whose alias keys, is canonical_key(x), and nothing when there is none;  *)
(* at most one entity qualifies in every state, so find_entity of the text *)
(* of an ingested outcome returns the entity the outcome is linked to.     *)
Qualifying(d, k) ==
    {e \in Rows(d.entities) :
        k \in {e.canonical_key}
                \cup {a.alias_key : a \in {x \in Rows(d.entity_aliases) : x.entity_id = e.id}}}

C27_FindEntity ==
    /\ \A x \in FindInputs : Cardinality(Qualifying(db, canonical_key(x))) <= 1
    /\ ret[1] = "find_entity" =>
           LET q == Qualifying(db, canonical_key(ret[2][1]))
           IN  IF q = {} THEN ret[3] = <<>> ELSE ret[3] \in {<<e>> : e \in q}
    /\ \A o \in Rows(db.outcomes) :
           \A l \in LinksOf(db, o.id) :
               \A r \in find_entity(db, o.selection_name) :
                   r # <<>> /\ r[1].id = l.entity_id

\* the respelled name of the second page finds the entity of the first
C27_Witness ==
    /\ ret[1] = "find_entity" /\ ret[2] = <<VerstappenMaxNoComma>>
    /\ ret[3] # <<>> /\ ret[3][1].canonical_name = VerstappenMax
    /\ \E o \in Rows(db.outcomes) :
           /\ o.selection_name = VerstappenMaxNoComma
           /\ \E l \in LinksOf(db, o.id) : l.entity_id = ret[3][1].id

(* C28: entity_odds_history(e) returns one record for every outcome linked *)
(* to entity e, whatever its snapshot and market, and none for an outcome  *)
(* linked to another entity or to none, ordered by snapshot id and then by *)
(* outcome id.                                                             *)
C28_EntityOddsHistory ==
    ret[1] = "entity_odds_history" =>
        LET h == ret[3]
            linked == {o \in Rows(db.outcomes) : LinkedEntity(db, o.id) = ret[2][1]}
        IN  /\ {h[i].outcome_id : i \in 1..Len(h)} = {o.id : o \in linked}
            /\ Len(h) = Cardinality(linked)
            /\ \A i \in 1..Len(h) :
                   \E o \in linked :
                       /\ h[i].outcome_id = o.id /\ h[i].snapshot_id = o.snapshot_id
                       /\ h[i].market_id = o.market_id
                       /\ h[i].selection_name = o.selection_name
                       /\ h[i].odds_decimal = o.odds_decimal
            /\ \A i, j \in 1..Len(h) :
                   i < j => \/ h[i].snapshot_id < h[j].snapshot_id
                            \/ /\ h[i].snapshot_id = h[j].snapshot_id
                               /\ h[i].outcome_id < h[j].outcome_id

\* the outcome inserted later belongs to the older snapshot and comes first
C28_Witness ==
    /\ ret[1] = "entity_odds_history"
    /\ Len(ret[3]) = 2
    /\ ret[3][1].outcome_id > ret[3][2].outcome_id
    /\ ret[3][1].snapshot_id < ret[3][2].snapshot_id

(* C29: F1ClockCog has at most one live rename task per channel, and       *)
(* _rename_tasks[channel] is that task when there is one and absent when   *)
(* there is none. A call with the target of the pending task creates no    *)
(* task; a call with another target cancels the pending task and puts a    *)
(* new one in its place; a task that finishes removes the entry only when  *)
(* the entry holds that task; with no entry, a call starts a new task.     *)
LiveTasks(g, ps, c) ==
    {t \in 1..Len(ps) : g.tasks[t].channel = c /\ ps[t] # "done" /\ ~g.tasks[t].must_cancel}

EntryIsTheLiveTask(g, ps) ==
    \A c \in ChannelIds :
        /\ Cardinality(LiveTasks(g, ps, c)) <= 1
        /\ g._rename_tasks[c] = <<>> <=> LiveTasks(g, ps, c) = {}
        /\ g._rename_tasks[c] # <<>> =>
               /\ g._rename_tasks[c][2] \in LiveTasks(g, ps, c)
               /\ g.tasks[g._rename_tasks[c][2]].target = g._rename_tasks[c][1]

ScheduleStep(c) ==
    LET old == cog._rename_tasks[c]
        target == ret'[2][2]
        new == Len(pc) + 1
        Started == /\ Len(pc') = new /\ pc'[new] = "created"
                   /\ cog'._rename_tasks[c] = <<target, new>>
    IN  IF old # <<>> /\ old[1] = target
        THEN cog' = cog /\ pc' = pc
        ELSE IF old # <<>>
        THEN Started /\ cog'.tasks[old[2]].must_cancel
        ELSE Started

RunnerStep(t) ==
    \A c \in ChannelIds :
        cog'._rename_tasks[c] =
            IF pc[t] = "edit" /\ cog._rename_tasks[c] # <<>> /\ cog._rename_tasks[c][2] = t
            THEN <<>>
            ELSE cog._rename_tasks[c]

C29_OneRenameTaskPerChannel ==
    [][/\ EntryIsTheLiveTask(cog', pc')
       /\ ret'[1] = "_schedule_channel_rename" => ScheduleStep(ret'[2][1])
       /\ ret'[1] = "_runner" => RunnerStep(ret'[2][1])]_vars

\* a cancelled task ran its finally block while the entry held its
\* replacement, and the entry is still there
C29_Witness ==
    /\ ret = <<"_runner", <<1>>, "cancelled">>
    /\ \E c \in ChannelIds :
           /\ cog.tasks[1].channel = c
           /\ cog._rename_tasks[c] # <<>> /\ cog._rename_tasks[c][2] = 2
           /\ pc[2] = "edit"

(* C30: _clock_loop makes no update before the bot is ready; once ready it *)
(* calls update_channels once before any _sleep_until_next_mark, and every *)
(* later update_channels follows a _sleep_until_next_mark; an exception of *)
(* an update or a sleep that is no cancellation does not end the loop, and *)
(* cancellation ends it.                                                   *)
C30_ClockLoop ==
    [][/\ cog'.updates > 0 => cog'.ready
       /\ cog'.sleeps > 0 => cog'.updates > 0
       /\ cog'.updates # cog.updates =>
              /\ cog'.updates = cog.updates + 1
              /\ \/ cog.updates = 0 /\ cog.sleeps = 0 /\ pc = "wait_until_ready"
                 \/ /\ cog.updates > 0 /\ pc = "_sleep_until_next_mark"
                    /\ ret' = <<"_sleep_until_next_mark", <<>>, "returned">>
       /\ ret'[3] = "raised" =>
              pc' = "_sleep_until_next_mark" /\ cog'.sleeps = cog.sleeps + 1
       /\ ret'[3] = "cancelled" => pc' = "cancelled"
       /\ pc = "cancelled" =>
              pc' = "cancelled" /\ cog'.updates = cog.updates /\ cog'.sleeps = cog.sleeps]_vars

\* the sleep after the first update raised, and the loop sleeps again
C30_Witness ==
    /\ ret = <<"_sleep_until_next_mark", <<>>, "raised">>
    /\ pc = "_sleep_until_next_mark"
    /\ cog.updates = 1 /\ cog.sleeps = 2

(* C31: /schedule with kind "message" and a content that is missing or all *)
(* whitespace adds no job, and, from an admin with a time that parses and  *)
(* a text channel as target, is answered with the ephemeral "Provide       *)
(* message text" error; every rejected invocation (caller no admin, time   *)
(* that does not parse, target no text channel, bad poll answers, emojis   *)
(* or duration) leaves the manager's job list as it was.                   *)
ProvideText == "Provide message text for scheduled messages."

BadPoll(c) ==
    /\ c.kind = "poll"
    /\ \/ c.answers \in {<<>>, AnswersOne}
       \/ c.emojis = EmojisOne
       \/ c.duration \in {DurationZero, WhenSoon}

RejectedCall(c) ==
    \/ c.user # 1
    \/ c.when # WhenGood
    \/ c.channel = "VoiceChannel"
    \/ c.channel = "None" /\ c.interaction_channel = "Thread"
    \/ c.kind = "message" /\ c.content # TextHi
    \/ BadPoll(c)

C31_RejectedScheduleAddsNoJob ==
    [][LET c == cog.call
           passes == /\ c.user = 1 /\ c.when = WhenGood
                     /\ \/ c.channel = "TextChannel"
                        \/ c.channel = "None" /\ c.interaction_channel = "TextChannel"
       IN  /\ c.kind = "message" /\ c.content \in {<<>>, TextBlank} =>
                  /\ cog'._jobs = cog._jobs
                  /\ passes => ret'[3] = [text |-> ProvideText, ephemeral |-> TRUE]
           /\ RejectedCall(c) => cog'._jobs = cog._jobs /\ ret'[3].ephemeral
           /\ ~RejectedCall(c) => Len(cog'._jobs) = Len(cog._jobs) + 1]_vars

\* a whitespace message from an admin, refused, with the loaded job kept
C31_Witness ==
    /\ pc = "schedule_answered"
    /\ cog.call.kind = "message" /\ cog.call.content = TextBlank
    /\ ret[3].text = ProvideText
    /\ cog._jobs = <<LoadedJob>>

(* C32: a command-line entry point run with a --db path that does not      *)
(* exist exits with an error, and creates no database, fetches no page and *)
(* writes no snapshot.                                                     *)
C32_MissingDbIsFatal ==
    [][~cog.exists /\ ret'[1] \in {"toto_f1_api", "dump_toto_db"} =>
          /\ ret'[3].exit # 0
          /\ ~cog'.exists
          /\ ret'[3].calls = <<>>
          /\ db'.snapshots = <<>>]_vars

\* the dump script alone does what the claim says
DumpRefusesMissingDb ==
    [][~cog.exists /\ ret'[1] = "dump_toto_db" =>
          ret'[3].exit # 0 /\ ~cog'.exists /\ db' = db]_vars

----------------------------------------------------------------------------
(* C33: in _extract_market_blocks a candidate market title is never        *)
(* recorded as a selection and, while a block is open, closes the block    *)
(* and opens a new one even before an odds token; a "bekijk meer" line is  *)
(* never a selection; every entry is a pair of adjacent input lines whose  *)
(* second line matches the odds pattern, no line is in two entries, and    *)
(* blocks are returned in input order.  As stated it fails for a filler    *)
(* line that is also a candidate title; C33_TitlesAndPairs is the          *)
(* statement with that line excepted.                                      *)

\* the step recorded the current line and the next one as an entry
Recorded ==
    /\ scan.i + 1 <= Len(lines)
    /\ scan'.items = Append(scan.items, <<wsnorm(lines[scan.i]), lines[scan.i + 1]>>)
    /\ ODDS_DUTCH_RE_match(lines[scan.i + 1])
    /\ scan'.i = scan.i + 2
    /\ scan'.title = scan.title
    /\ scan'.blocks = scan.blocks

\* the step closed the open block and opened one titled by the current line
ClosedAndOpened ==
    /\ scan'.title = <<wsnorm(lines[scan.i])>>
    /\ scan'.items = <<>>
    /\ scan'.i = scan.i + 1
    /\ scan'.blocks = IF scan.items # <<>>
                      THEN Append(scan.blocks, <<scan.title[1], Uniq(scan.items, {})>>)
                      ELSE scan.blocks

\* what holds of every step, whatever the line
EntriesArePairs ==
    /\ scan'.i > scan.i
    /\ scan'.items # scan.items /\ scan'.items # <<>> => Recorded
    /\ Recorded => ~looks_like_market_title(lines[scan.i]) /\ ~IsFiller(lines[scan.i])
    /\ \/ scan'.blocks = scan.blocks
       \/ /\ Len(scan'.blocks) = Len(scan.blocks) + 1
          /\ SubSeq(scan'.blocks, 1, Len(scan.blocks)) = scan.blocks
          /\ scan.title # <<>>
          /\ Last(scan'.blocks)[1] = scan.title[1]

TitleStep(exceptFiller) ==
    pc = "scan" /\ pc' = "scan" /\ scan' # scan =>
        /\ EntriesArePairs
        /\ (/\ scan.title # <<>>
            /\ looks_like_market_title(lines[scan.i])
            /\ (exceptFiller => ~IsFiller(lines[scan.i])))
           => ClosedAndOpened

C33_AsStated == [][TitleStep(FALSE)]_vars

C33_TitlesAndPairs == [][TitleStep(TRUE)]_vars

\* with a block open, a title before an odds token has closed it and opened its own
C33_Witness ==
    /\ pc = "scan"
    /\ scan.i >= 3 /\ scan.i <= Len(lines)
    /\ looks_like_market_title(lines[scan.i - 2])
    /\ looks_like_market_title(lines[scan.i - 1])
    /\ ODDS_DUTCH_RE_match(lines[scan.i])
    /\ scan.title = <<lines[scan.i - 1]>>
    /\ scan.items = <<>>

----------------------------------------------------------------------------
(* C34: after complete upsert_entity_with_alias calls every alias row's    *)
(* alias_key is the canonical_key of its entity and every entity has       *)
(* exactly one alias row; a call creates an entity exactly when no entity  *)
(* and no alias of the store has the selection's canonical key.            *)
AliasesOf(d, e) == {a \in Rows(d.entity_aliases) : a.entity_id = e}

OneAliasPerEntity(d) ==
    /\ \A a \in Rows(d.entity_aliases) :
          \E e \in Rows(d.entities) :
              /\ e.id = a.entity_id
              /\ a.alias_key = e.canonical_key
              /\ a.alias_key = canonical_key(e.canonical_name)
    /\ \A e \in Rows(d.entities) : Cardinality(AliasesOf(d, e.id)) = 1

KeyKnown(d, k) ==
    \/ \E e \in Rows(d.entities) : e.canonical_key = k
    \/ \E a \in Rows(d.entity_aliases) : a.alias_key = k

C34_OneAliasPerEntity ==
    [][/\ OneAliasPerEntity(db')
       /\ ret'[1] = "upsert_entity_with_alias" =>
             LET k == canonical_key(ret'[2][1])
             IN  /\ Len(db'.entities) = Len(db.entities) + 1 <=> ~KeyKnown(db, k)
                 /\ KeyKnown(db, k) => db'.entities = db.entities
                 /\ RowById(db'.entities, ret'[3]).canonical_key = k]_vars

\* a second spelling has resolved to the entity of the first
C34_Witness ==
    /\ ret[1] = "upsert_entity_with_alias"
    /\ RowById(db.entities, ret[3]).canonical_name # ret[2][1]
    /\ Cardinality(AliasesOf(db, ret[3])) = 1

----------------------------------------------------------------------------
(* C35: after a refresh returning snapshot s every market whose title      *)
(* formed a block of the page has last_seen_snapshot_id = s and an         *)
(* outcome stamped s; so every market's last_seen_snapshot_id is the       *)
(* greatest snapshot id among its outcomes and list_outcomes_latest        *)
(* returns the outcomes of the snapshot recorded as last seen.             *)
OutcomesOf(d, m_id) == {o \in Rows(d.outcomes) : o.market_id = m_id}

LastSeenIsLatest(d) ==
    \A m \in Rows(d.markets) :
        LET mine == OutcomesOf(d, m.id)
            latest == list_outcomes_latest(d, m.id)
        IN  /\ mine # {}
            /\ m.last_seen_snapshot_id = Max({o.snapshot_id : o \in mine})
            /\ {latest[n].id : n \in 1..Len(latest)}
                   = {o.id : o \in {x \in mine : x.snapshot_id = m.last_seen_snapshot_id}}

C35_LastSeenIsLatest ==
    [][/\ LastSeenIsLatest(db')
       /\ RefreshStep =>
             LET bs == Extracted[ret'[2][1]].market_blocks
             IN  \A i \in 1..Len(bs) :
                     \E m \in Rows(db'.markets) :
                         /\ m.name = bs[i][1]
                         /\ m.last_seen_snapshot_id = ret'[3]
                         /\ \E o \in OutcomesOf(db', m.id) : o.snapshot_id = ret'[3]]_vars

\* the second refresh has re-stamped a market that has outcomes of both
\* snapshots, and left another market at the first
C35_Witness ==
    /\ ret[1] = "refresh" /\ ret[3] = 2
    /\ \E m \in Rows(db.markets) :
          /\ m.last_seen_snapshot_id = 2
          /\ {o.snapshot_id : o \in OutcomesOf(db, m.id)} = {1, 2}

----------------------------------------------------------------------------
(* C36: within one snapshot a market never has two Outcome rows with the   *)
(* same selection text and odds, whatever the page, also when one market   *)
(* title opens two blocks of the page.                                     *)
C36_NoRepeatedOutcome ==
    \A o1, o2 \in Rows(db.outcomes) :
        (/\ o1.market_id = o2.market_id
         /\ o1.snapshot_id = o2.snapshot_id
         /\ o1.selection_name = o2.selection_name
         /\ o1.odds_decimal = o2.odds_decimal) => o1.id = o2.id

----------------------------------------------------------------------------
(* C37: no wallet balance is ever negative, whatever the sequence and the  *)
(* thread interleaving of add_tokens, deduct_tokens, transfer_tokens,      *)
(* create_bet and try_award_message; the operation that would take a       *)
(* balance below zero raises InsufficientFundsError, changes no balance,   *)
(* records no transaction and creates no bet.                              *)
Finishing(t) == pc[t].at = "selected" /\ pc'[t].at = "idle"

Balances(d) == [u \in WalletUsers |-> get_balance(d, u)]

Debits == {"deduct_tokens", "transfer_tokens", "create_bet"}

C37_NoNegativeBalance ==
    [][/\ \A w \in db'.wallets : w.balance >= 0
       /\ Len(db'.transactions) = Len(db.transactions) =>
             Balances(db') = Balances(db) /\ db'.bets = db.bets
       /\ \A t \in WalletThreads :
             Finishing(t) =>
                LET c == pc[t].call
                    overdraw == c.op \in Debits /\ get_balance(db, c.user_id) - c.amount < 0
                IN  /\ overdraw <=> ret'[3].raised = <<"InsufficientFundsError">>
                    /\ overdraw => /\ Balances(db') = Balances(db)
                                   /\ db'.transactions = db.transactions
                                   /\ db'.bets = db.bets]_vars

\* a wallet holding 100 cents has refused a debit of 200
C37_Witness ==
    /\ ret[1] \in Debits
    /\ ret[3].raised = <<"InsufficientFundsError">>
    /\ get_balance(db, ret[2].user_id) = 100
    /\ ret[2].amount = 200

----------------------------------------------------------------------------
(* C38: transfer_tokens is all-or-nothing and conserves the total: on      *)
(* success the sender loses and the recipient gains exactly the amount,    *)
(* the sum of the balances is unchanged and one transaction is recorded    *)
(* for each side; on failure (amount not positive, sender equal to         *)
(* recipient, insufficient funds) no balance changes and no transaction    *)
(* is recorded.                                                            *)
RECURSIVE SumOver(_, _)
SumOver(d, users) ==
    IF users = {} THEN 0
    ELSE LET u == CHOOSE x \in users : TRUE
         IN  get_balance(d, u) + SumOver(d, users \ {u})

Transferred(c) ==
    LET s == c.user_id
        r == c.other_id
        n == Len(db.transactions)
    IN  /\ ret'[3].raised = <<>>
        /\ get_balance(db', s) = get_balance(db, s) - c.amount
        /\ get_balance(db', r) = get_balance(db, r) + c.amount
        /\ \A u \in WalletUsers \ {s, r} : get_balance(db', u) = get_balance(db, u)
        /\ SumOver(db', WalletUsers) = SumOver(db, WalletUsers)
        /\ Len(db'.transactions) = n + 2
        /\ SubSeq(db'.transactions, 1, n) = db.transactions
        /\ db'.transactions[n + 1].user_id = s
        /\ db'.transactions[n + 1].amount = 0 - c.amount
        /\ db'.transactions[n + 2].user_id = r
        /\ db'.transactions[n + 2].amount = c.amount
        /\ ret'[3].value = <<<<get_balance(db', s), get_balance(db', r)>>>>

NotTransferred ==
    /\ ret'[3].raised # <<>>
    /\ Balances(db') = Balances(db)
    /\ db'.transactions = db.transactions

C38_TransferAllOrNothing ==
    [][\A t \in WalletThreads :
          /\ Finishing(t) /\ pc[t].call.op = "transfer_tokens" =>
                IF get_balance(db, pc[t].call.user_id) >= pc[t].call.amount
                THEN Transferred(pc[t].call)
                ELSE NotTransferred
          /\ pc' = pc /\ ret'[1] = "transfer_tokens" =>
                /\ ret'[2].amount <= 0 \/ ret'[2].user_id = ret'[2].other_id
                /\ NotTransferred
          /\ pc[t].at = "idle" /\ pc'[t].at = "locked"
                /\ pc'[t].call.op = "transfer_tokens" =>
                /\ pc'[t].call.amount > 0
                /\ pc'[t].call.user_id # pc'[t].call.other_id]_vars

\* a transfer has moved the sender's 200 cents to the recipient
C38_Witness ==
    /\ ret[1] = "transfer_tokens"
    /\ ret[3].raised = <<>>
    /\ ret[3].value = <<<<0, 200>>>>
    /\ get_balance(db, ret[2].user_id) = 0
    /\ get_balance(db, ret[2].other_id) = 200
    /\ Len(db.transactions) = 3

----------------------------------------------------------------------------
(* C39: try_award_message credits 100 cents at most once per 60 seconds of *)
(* message time: a call whose timestamp is less than 60 seconds after the  *)
(* user's last awarded timestamp returns False and changes nothing, any    *)
(* other call returns True, credits 100 cents and records the timestamp,   *)
(* also when threads call it concurrently for one user.                    *)
C39_AwardOncePerMinute ==
    [][\A t \in WalletThreads :
          Finishing(t) /\ pc[t].call.op = "try_award_message" =>
             LET c == pc[t].call
                 u == c.user_id
                 last == SelectCooldown(db, u)
                 n == Len(db.transactions)
             IN  IF last # <<>> /\ c.at - last[1] < CooldownSeconds
                 THEN ret'[3] = [raised |-> <<>>, value |-> <<FALSE>>] /\ db' = db
                 ELSE /\ ret'[3] = [raised |-> <<>>, value |-> <<TRUE>>]
                      /\ get_balance(db', u) = get_balance(db, u) + TOKEN_MULTIPLIER
                      /\ \A v \in WalletUsers \ {u} :
                            /\ get_balance(db', v) = get_balance(db, v)
                            /\ SelectCooldown(db', v) = SelectCooldown(db, v)
                      /\ SelectCooldown(db', u) = <<c.at>>
                      /\ Len(db'.transactions) = n + 1
                      /\ db'.transactions[n + 1].user_id = u
                      /\ db'.transactions[n + 1].amount = TOKEN_MULTIPLIER]_vars

\* a message 30 seconds after the awarded one has been refused
C39_Witness ==
    /\ ret[1] = "try_award_message"
    /\ ret[3].value = <<FALSE>>
    /\ ret[2].at = 30
    /\ SelectCooldown(db, ret[2].user_id) = <<0>>
    /\ get_balance(db, ret[2].user_id) = TOKEN_MULTIPLIER

----------------------------------------------------------------------------
(* C40: scheduled jobs are handed out at most once and never dropped       *)
(* early: due_jobs(now) returns exactly the queued jobs with run_at <= now *)
(* and removes them, a job once returned is never returned again, the jobs *)
(* with run_at > now stay queued in their order, and a job added while the *)
(* loop is executing the due jobs of a tick stays queued for a later tick. *)
Ids(jobs) == {jobs[i].id : i \in 1..Len(jobs)}

\* the jobs of the tick in progress not yet given to _execute_job
PendingOf(s) == {s.due[i].id : i \in s.i..Len(s.due)}

HandedOutOnce(jobs, s, done) ==
    /\ \A i, j \in 1..Len(done) : done[i] = done[j] => i = j
    /\ Ids(jobs) \cap PendingOf(s) = {}
    /\ \A i \in 1..Len(done) : done[i] \notin Ids(jobs) \cup PendingOf(s)

C40_JobsHandedOutOnce ==
    [][/\ HandedOutOnce(cog'._jobs, scan', blocks')
       /\ cog'.now # cog.now =>
             LET Due(j) == j.run_at <= cog'.now
                 NotDue(j) == j.run_at > cog'.now
             IN  /\ ret' = <<"due_jobs", <<cog'.now>>, SelectSeq(cog._jobs, Due)>>
                 /\ scan' = [due |-> ret'[3], i |-> 1]
                 /\ cog'._jobs = SelectSeq(cog._jobs, NotDue)
       /\ blocks' # blocks =>
             /\ pc = "executing"
             /\ blocks' = Append(blocks, scan.due[scan.i].id)
             /\ cog'._jobs = cog._jobs
       /\ pc = "executing" /\ cog'.next # cog.next =>
             /\ cog'._jobs = Append(cog._jobs, ret'[2][1])
             /\ scan' = scan /\ pc' = pc /\ blocks' = blocks
       /\ cog'.now = cog.now /\ cog'.next = cog.next /\ ret'[1] # "remove_job" =>
             cog'._jobs = cog._jobs]_vars

\* a job that is already due has been added between the jobs of a tick and
\* is queued
C40_Witness ==
    /\ pc = "executing"
    /\ ret[1] = "add_job"
    /\ ret[2][1].run_at <= cog.now
    /\ ret[2][1].id \in Ids(cog._jobs)
    /\ blocks # <<>>

=============================================================================
